---- MODULE Spec2Model ----
(***************************************************************************)
(* Verification model of the interview post-processing engine:             *)
(*   - extractValidJson        (gemini service, src/README.md)             *)
(*   - aggregatePairSentiments (gemini service, src/README.md)             *)
(*   - buildFlowGraph, detectMissedFollowUps, calculateLogicalScore        *)
(*                             (src/server/services/flowGraph.ts)          *)
(*   - processInterview        (src/unnamed/part_001)                      *)
(* Text is a sequence of characters, each a string; "BOM" stands for       *)
(* U+FEFF and "BACKTICK" for U+0060.                                       *)
(* Fractions are exact: a number is a pair <<numerator, denominator>>.     *)
(* The continuity score is computed in double precision, as the code does. *)
(***************************************************************************)
EXTENDS Integers, Sequences, FiniteSets, TLC

VARIABLES
    \* --- extractor harness: one model response and its extraction
    origin,        \* the value the model was asked to emit (a text)
    drops,         \* how many characters the response lost (truncation/garbling)
    wrapping,      \* the wrappers put around the value, in order
    text,          \* the raw response handed to extractValidJson
    extraction     \* the outcome of extractValidJson(text), or pending

extractVars == <<origin, drops, wrapping, text, extraction>>

VARIABLES
    \* --- sentiment aggregation: one batch of per-exchange judgments
    pairAnalyses,    \* the judgments collected so far, one pair per exchange
    sentimentResult  \* what aggregatePairSentiments returned, or pending

aggVars == <<pairAnalyses, sentimentResult>>

VARIABLES
    \* --- conversation flow: one interview and its flow analysis
    questions,       \* the recruiter questions, in order
    answers,         \* the candidate answers, in order (never more than questions)
    flowPhase,       \* "input", "built", "detected" or "scored"
    graph,           \* what buildFlowGraph returned
    missedFollowUps, \* what detectMissedFollowUps returned
    logicalScore     \* what calculateLogicalScore returned

flowVars == <<questions, answers, flowPhase, graph, missedFollowUps, logicalScore>>

VARIABLES
    \* --- processInterview: one run of the multi-stage pipeline
    pc,              \* the await the run is parked at
    hasResume,       \* whether the interview carries resume text
    steps,           \* the local array of processing steps
    stored,          \* the interview document in storage
    uniqueSpeakers,  \* how many speakers the transcription found
    contentAnalysis, \* what analyzeContentType returned
    stage,           \* how each stage call ended
    reports,         \* how many analysis reports storage holds
    outcome,         \* "running", "returned" or "thrown"
    storage          \* whether storage may reject a call, and where it did

pipeVars == <<pc, hasResume, steps, stored, uniqueSpeakers, contentAnalysis,
              stage, reports, outcome, storage>>

VARIABLES
    \* --- calculateLogicalScore on its own: one call with any list of edges
    edgeList,        \* the edges handed to calculateLogicalScore
    edgeScore        \* what it returned, or pending

scoreVars == <<edgeList, edgeScore>>

VARIABLES
    \* --- generateTrainingRecommendations: one call and its arguments
    jdMetric,        \* jdAnalysis?.overallScore: <<n>>, or <<>> for undefined
    flowMetric,      \* flowAnalysis?.continuityScore, likewise
    recruiterMetric, \* sentimentAnalysis?.recruiterSentiment?.overallScore, likewise
    missedGiven,     \* missedFollowUps?.length, likewise
    training         \* what generateTrainingRecommendations returned, or pending

trainingVars == <<jdMetric, flowMetric, recruiterMetric, missedGiven, training>>

VARIABLES
    \* --- analyzeQuestionConnection on its own: one call with two questions
    earlierText,     \* the earlier question (a text)
    laterText,       \* the later question (a text)
    connection       \* what analyzeQuestionConnection returned, or pending

connectVars == <<earlierText, laterText, connection>>

VARIABLES
    \* --- identifyConversationBranches on the graph of the flow analysis
    branches         \* what identifyConversationBranches returned, or pending

branchVars == <<branches>>

VARIABLES
    \* --- the authentication routes
    accounts,        \* the users in storage: email address to password
    issued,          \* the tokens signed so far
    admitted,        \* which handler accepted which kind of token
    reply,           \* the response to the last request
    forgot           \* the last forgot-password request, answered in both worlds

authVars == <<accounts, issued, admitted, reply, forgot>>

vars == <<extractVars, aggVars, flowVars, pipeVars, scoreVars, trainingVars, connectVars, branchVars, authVars>>

\* What the actions of one component leave alone.
notExtract  == <<aggVars, flowVars, pipeVars, scoreVars, trainingVars, connectVars, branchVars, authVars>>
notAgg      == <<extractVars, flowVars, pipeVars, scoreVars, trainingVars, connectVars, branchVars, authVars>>
notFlow     == <<extractVars, aggVars, pipeVars, scoreVars, trainingVars, connectVars, branchVars, authVars>>
notPipe     == <<extractVars, aggVars, flowVars, scoreVars, trainingVars, connectVars, branchVars, authVars>>
notScore    == <<extractVars, aggVars, flowVars, pipeVars, trainingVars, connectVars, branchVars, authVars>>
notTraining == <<extractVars, aggVars, flowVars, pipeVars, scoreVars, connectVars, branchVars, authVars>>
notConnect == <<extractVars, aggVars, flowVars, pipeVars, scoreVars, trainingVars, branchVars, authVars>>
notBranch == <<extractVars, aggVars, flowVars, pipeVars, scoreVars, trainingVars, connectVars, authVars>>
notAuth == <<extractVars, aggVars, flowVars, pipeVars, scoreVars, trainingVars, connectVars, branchVars>>

\* No aggregation under way, for the specifications of the other components.
NoResult == [done |-> FALSE]
AggIdle ==
    /\ pairAnalyses = <<>>
    /\ sentimentResult = NoResult

\* No flow analysis under way, for the specifications of the other components.
NoGraph == [nodes |-> <<>>, edges |-> <<>>]
FlowIdle ==
    /\ questions = <<>>
    /\ answers = <<>>
    /\ flowPhase = "input"
    /\ graph = NoGraph
    /\ missedFollowUps = <<>>
    /\ logicalScore = [m |-> <<>>, e |-> 0]

\* No score asked for, for the specifications of the other components.
NoScore == [done |-> FALSE]
ScoreIdle ==
    /\ edgeList = <<>>
    /\ edgeScore = NoScore

\* No recommendations asked for, for the specifications of the other components.
\* An optional number is <<>> for undefined, or <<n>> for the number n.
Undefined == <<>>
NoTraining == [done |-> FALSE]
TrainingIdle ==
    /\ jdMetric = Undefined
    /\ flowMetric = Undefined
    /\ recruiterMetric = Undefined
    /\ missedGiven = Undefined
    /\ training = NoTraining

\* No connection asked for, for the specifications of the other components.
NoConnection == [done |-> FALSE]
ConnectIdle ==
    /\ earlierText = <<>>
    /\ laterText = <<>>
    /\ connection = NoConnection

\* No branches asked for, for the specifications of the other components.
NoBranches == [done |-> FALSE]
BranchIdle == branches = NoBranches

\* No request handled, for the specifications of the other components.
NoResponse == [route |-> "none", status |-> 0, message |-> "none"]
NoForgot   == [asked |-> FALSE]
AuthIdle ==
    /\ accounts = <<>>
    /\ issued = {}
    /\ admitted = {}
    /\ reply = NoResponse
    /\ forgot = NoForgot

\* No pipeline run under way, for the specifications of the other components.
NotCalled == [threw |-> FALSE, cause |-> "none", source |-> "none"]
NoContentAnalysis == [contentType |-> "none", speakerCount |-> 0, isJobRelated |-> FALSE]
NoStorage == [mayFail |-> FALSE, failed |-> {}]
PipeIdle ==
    /\ pc = "idle"
    /\ storage = NoStorage
    /\ hasResume = FALSE
    /\ steps = <<>>
    /\ stored = [processingStatus |-> "pending", processingSteps |-> <<>>, fields |-> {}]
    /\ uniqueSpeakers = 0
    /\ contentAnalysis = NoContentAnalysis
    /\ stage = <<>>
    /\ reports = 0
    /\ outcome = "running"

-----------------------------------------------------------------------------
(* Characters and strings                                                  *)

\* JavaScript WhiteSpace and LineTerminator characters (String.prototype.trim, \s).
IsWhitespace(c)      == c \in {" ", "\n", "\t", "\r", "BOM"}
\* JSON insignificant whitespace (JSON.parse).
IsJsonWhitespace(c)  == c \in {" ", "\n", "\t", "\r"}
\* Characters the regular-expression dot does not match.
IsLineTerminator(c)  == c \in {"\n", "\r"}

Digits    == {"0", "1", "2", "3", "4", "5", "6", "7", "8", "9"}
HexDigits == Digits \cup {"a", "b", "c", "d", "e", "f", "A", "B", "C", "D", "E", "F"}

\* s[i], or "EOF" outside the string.
At(s, i) == IF i >= 1 /\ i <= Len(s) THEN s[i] ELSE "EOF"

\* Does word w occur in s starting at index i?
MatchAt(s, i, w) ==
    /\ i >= 1
    /\ i + Len(w) - 1 <= Len(s)
    /\ SubSeq(s, i, i + Len(w) - 1) = w

\* String.prototype.indexOf(c, from) for a one-character needle, 1-based; 0 when absent.
RECURSIVE IndexOfFrom(_, _, _)
IndexOfFrom(s, c, i) ==
    IF i > Len(s) THEN 0
    ELSE IF s[i] = c THEN i
    ELSE IndexOfFrom(s, c, i + 1)

IndexOf(s, c) == IndexOfFrom(s, c, 1)

RECURSIVE TrimStart(_)
TrimStart(s) ==
    IF s # <<>> /\ IsWhitespace(Head(s)) THEN TrimStart(Tail(s)) ELSE s

RECURSIVE TrimEnd(_)
TrimEnd(s) ==
    IF s # <<>> /\ IsWhitespace(s[Len(s)]) THEN TrimEnd(SubSeq(s, 1, Len(s) - 1)) ELSE s

\* String.prototype.trim
Trim(s) == TrimEnd(TrimStart(s))

\* The leading byte-order-mark removal.
StripBom(s) == IF s # <<>> /\ Head(s) = "BOM" THEN Tail(s) ELSE s

-----------------------------------------------------------------------------
(* JSON.parse as a recogniser: each Parse* takes the index of the first    *)
(* character of the construct and yields the index after it, 0 on a        *)
(* syntax error.                                                           *)

RECURSIVE SkipJsonWs(_, _)
SkipJsonWs(s, i) ==
    IF IsJsonWhitespace(At(s, i)) THEN SkipJsonWs(s, i + 1) ELSE i

RECURSIVE SkipDigits(_, _)
SkipDigits(s, i) ==
    IF At(s, i) \in Digits THEN SkipDigits(s, i + 1) ELSE i

\* -? (0 | [1-9][0-9]*) (. [0-9]+)? ([eE] [+-]? [0-9]+)?
ParseNumber(s, i) ==
    LET j == IF At(s, i) = "-" THEN i + 1 ELSE i
        k == IF At(s, j) = "0" THEN j + 1
             ELSE IF At(s, j) \in Digits THEN SkipDigits(s, j)
             ELSE 0
        f == IF k = 0 THEN 0
             ELSE IF At(s, k) = "."
                  THEN (IF At(s, k + 1) \in Digits THEN SkipDigits(s, k + 1) ELSE 0)
                  ELSE k
        g == IF At(s, f + 1) \in {"+", "-"} THEN f + 2 ELSE f + 1
    IN  IF f = 0 THEN 0
        ELSE IF At(s, f) \in {"e", "E"}
             THEN (IF At(s, g) \in Digits THEN SkipDigits(s, g) ELSE 0)
             ELSE f

\* i is an index inside a string literal, after its opening quote.
RECURSIVE ParseStringRest(_, _)
ParseStringRest(s, i) ==
    IF i > Len(s) THEN 0
    ELSE IF s[i] = "\"" THEN i + 1
    ELSE IF s[i] = "\\"
         THEN IF At(s, i + 1) \in {"\"", "\\", "/", "b", "f", "n", "r", "t"}
              THEN ParseStringRest(s, i + 2)
              ELSE IF At(s, i + 1) = "u" /\ \A k \in 2..5 : At(s, i + k) \in HexDigits
                   THEN ParseStringRest(s, i + 6)
                   ELSE 0
    ELSE IF s[i] \in {"\n", "\t", "\r"} THEN 0
    ELSE ParseStringRest(s, i + 1)

ParseString(s, i) ==
    IF At(s, i) = "\"" THEN ParseStringRest(s, i + 1) ELSE 0

RECURSIVE ParseValue(_, _)
RECURSIVE ParseElements(_, _)
RECURSIVE ParseMembers(_, _)

\* i is the index of the first character of a value.
ParseValue(s, i) ==
    LET c == At(s, i)
    IN  IF c = "{"
        THEN LET j == SkipJsonWs(s, i + 1)
             IN  IF At(s, j) = "}" THEN j + 1 ELSE ParseMembers(s, j)
        ELSE IF c = "["
        THEN LET j == SkipJsonWs(s, i + 1)
             IN  IF At(s, j) = "]" THEN j + 1 ELSE ParseElements(s, j)
        ELSE IF c = "\"" THEN ParseString(s, i)
        ELSE IF c = "-" \/ c \in Digits THEN ParseNumber(s, i)
        ELSE IF MatchAt(s, i, <<"t", "r", "u", "e">>) THEN i + 4
        ELSE IF MatchAt(s, i, <<"f", "a", "l", "s", "e">>) THEN i + 5
        ELSE IF MatchAt(s, i, <<"n", "u", "l", "l">>) THEN i + 4
        ELSE 0

\* i is the index of the first character of an array element.
ParseElements(s, i) ==
    LET v == ParseValue(s, i)
        j == SkipJsonWs(s, v)
    IN  IF v = 0 THEN 0
        ELSE IF At(s, j) = "," THEN ParseElements(s, SkipJsonWs(s, j + 1))
        ELSE IF At(s, j) = "]" THEN j + 1
        ELSE 0

\* i is the index of the first character of an object member (its key).
ParseMembers(s, i) ==
    LET k == ParseString(s, i)
        c == SkipJsonWs(s, k)
        v == IF k # 0 /\ At(s, c) = ":" THEN ParseValue(s, SkipJsonWs(s, c + 1)) ELSE 0
        j == SkipJsonWs(s, v)
    IN  IF v = 0 THEN 0
        ELSE IF At(s, j) = "," THEN ParseMembers(s, SkipJsonWs(s, j + 1))
        ELSE IF At(s, j) = "}" THEN j + 1
        ELSE 0

\* TRUE iff JSON.parse(s) returns instead of throwing a SyntaxError.
JsonParses(s) ==
    LET v == ParseValue(s, SkipJsonWs(s, 1))
    IN  v # 0 /\ SkipJsonWs(s, v) = Len(s) + 1

-----------------------------------------------------------------------------
(* extractValidJson                                                        *)

Backticks == <<"BACKTICK", "BACKTICK", "BACKTICK">>

RECURSIVE SkipWhitespace(_, _)
SkipWhitespace(s, i) ==
    IF IsWhitespace(At(s, i)) THEN SkipWhitespace(s, i + 1) ELSE i

\* The lazy tail .*?\n of the fence pattern, from index i: the index after the
\* first "\n" when only dot-matchable characters precede it, else 0.
RECURSIVE MatchToNewline(_, _)
MatchToNewline(s, i) ==
    IF i > Len(s) THEN 0
    ELSE IF s[i] = "\n" THEN i + 1
    ELSE IF IsLineTerminator(s[i]) THEN 0
    ELSE MatchToNewline(s, i + 1)

\* One match of the opening-fence pattern (three backticks, \s*, json or JSON,
\* a lazy run up to a newline) at index i: the index after the
\* match, 0 when the pattern does not match there.
MatchFenceOpen(s, i) ==
    IF ~MatchAt(s, i, Backticks) THEN 0
    ELSE LET j == SkipWhitespace(s, i + 3)
         IN  IF MatchAt(s, j, <<"j", "s", "o", "n">>) \/ MatchAt(s, j, <<"J", "S", "O", "N">>)
             THEN MatchToNewline(s, j + 4)
             ELSE 0

\* The first replace of the markdown removal (opening fences, global), from index i.
RECURSIVE RemoveFenceOpenFrom(_, _)
RemoveFenceOpenFrom(s, i) ==
    IF i > Len(s) THEN <<>>
    ELSE LET m == MatchFenceOpen(s, i)
         IN  IF m # 0 THEN RemoveFenceOpenFrom(s, m)
             ELSE <<s[i]>> \o RemoveFenceOpenFrom(s, i + 1)

\* The second replace (every remaining run of three backticks), from index i.
RECURSIVE RemoveBackticksFrom(_, _)
RemoveBackticksFrom(s, i) ==
    IF i > Len(s) THEN <<>>
    ELSE IF MatchAt(s, i, Backticks) THEN RemoveBackticksFrom(s, i + 3)
    ELSE <<s[i]>> \o RemoveBackticksFrom(s, i + 1)

\* The markdown removal of extractValidJson.
RemoveMarkdown(s) == RemoveBackticksFrom(RemoveFenceOpenFrom(s, 1), 1)

ErrNoJson     == "No JSON object or array found in response"
ErrUnmatched  == "Malformed JSON: unmatched brackets"

Returned(s) == [ok |-> TRUE,  value |-> s,    error |-> ""]
Thrown(msg) == [ok |-> FALSE, value |-> <<>>, error |-> msg]

\* The smaller of the first brace index and the first bracket index; 0 stands
\* for Infinity (neither occurs).
JsonStart(cleaned) ==
    LET b == IndexOf(cleaned, "{")
        k == IndexOf(cleaned, "[")
    IN  IF b = 0 THEN k
        ELSE IF k = 0 THEN b
        ELSE IF b < k THEN b ELSE k

\* The string-aware scan loop of extractValidJson from index i, with its
\* locals; yields the index of the closer that brings depth back to 0, else 0.
RECURSIVE ScanForEnd(_, _, _, _, _, _, _)
ScanForEnd(cleaned, i, startChar, endChar, depth, inString, escaped) ==
    IF i > Len(cleaned) THEN 0
    ELSE LET char == cleaned[i]
         IN  IF escaped
             THEN ScanForEnd(cleaned, i + 1, startChar, endChar, depth, inString, FALSE)
             ELSE IF char = "\\"
             THEN ScanForEnd(cleaned, i + 1, startChar, endChar, depth, inString, TRUE)
             ELSE IF char = "\""
             THEN ScanForEnd(cleaned, i + 1, startChar, endChar, depth, ~inString, FALSE)
             ELSE IF inString
             THEN ScanForEnd(cleaned, i + 1, startChar, endChar, depth, inString, FALSE)
             ELSE IF char = startChar
             THEN ScanForEnd(cleaned, i + 1, startChar, endChar, depth + 1, inString, FALSE)
             ELSE IF char = endChar
             THEN (IF depth - 1 = 0 THEN i
                   ELSE ScanForEnd(cleaned, i + 1, startChar, endChar, depth - 1, inString, FALSE))
             ELSE ScanForEnd(cleaned, i + 1, startChar, endChar, depth, inString, FALSE)

\* ScanExtract without the no-opener check: the scan runs and finds nothing.
ScanExtract_NoOpenerCheck(cleaned) ==
    LET jsonStart == JsonStart(cleaned)
    IN  IF jsonStart = 0 THEN Thrown(ErrUnmatched)
        ELSE LET startChar == cleaned[jsonStart]
                 endChar   == IF startChar = "{" THEN "}" ELSE "]"
                 e == ScanForEnd(cleaned, jsonStart, startChar, endChar, 0, FALSE, FALSE)
             IN  IF e = 0 THEN Thrown(ErrUnmatched)
                 ELSE Returned(SubSeq(cleaned, jsonStart, e))

\* The last stage of extractValidJson: locate the first opener and scan.
ScanExtract(cleaned) ==
    LET jsonStart == JsonStart(cleaned)
    IN  IF jsonStart = 0 THEN Thrown(ErrNoJson)
        ELSE LET startChar == cleaned[jsonStart]
                 endChar   == IF startChar = "{" THEN "}" ELSE "]"
                 e == ScanForEnd(cleaned, jsonStart, startChar, endChar, 0, FALSE, FALSE)
             IN  IF e = 0 THEN Thrown(ErrUnmatched)
                 ELSE Returned(SubSeq(cleaned, jsonStart, e))

extractValidJson(rawText) ==
    LET cleaned  == Trim(StripBom(rawText))
        stripped == RemoveMarkdown(cleaned)
    IN  IF JsonParses(cleaned) THEN Returned(cleaned)
        ELSE IF JsonParses(Trim(stripped)) THEN Returned(Trim(stripped))
        ELSE ScanExtract(stripped)

-----------------------------------------------------------------------------
(* Model responses handed to extractValidJson                              *)

LitObject ==
    <<"{", "\"", "a", "\"", ":", "1", "}">>
LitArray ==
    <<"[", "1", ",", "-", "2", ".", "5", "]">>
LitBraceInString ==
    <<"{", "\"", "a", "\"", ":", "\"", "}", "{", "\"", "}">>
LitBracketInString ==
    <<"[", "\"", "]", "\"", ",", "\"", "[", "\"", "]">>
LitNested ==
    <<"{", "\"", "a", "\"", ":", "[", "1", ",", "{", "\"", "b", "\"", ":", "[", "]", "}", "]", "}">>
LitFenceInString ==
    <<"[", "\"", "BACKTICK", "BACKTICK", "BACKTICK", "\"", "]">>
LitEscapedQuote ==
    <<"{", "\"", "a", "\"", ":", "\"", "\\", "\"", "}", "\"", "}">>
LitPretty ==
    <<"{", "\n", " ", "\"", "a", "\"", ":", " ", "[", "1", "]", "\n", "}">>
LitArrayOfObject ==
    <<"[", "{", "\"", "a", "\"", ":", "1", "}", "]">>
TextNumber ==
    <<"4", "2">>
TextString ==
    <<"\"", "a", "{", "\"">>
TextProse ==
    <<"n", "o", " ", "j", "s", "o", "n", "\n">>

\* Object and array literals a model may be asked to emit.
Literals ==
    { LitObject, LitArray, LitBraceInString, LitBracketInString, LitNested,
      LitFenceInString, LitEscapedQuote, LitPretty, LitArrayOfObject }

\* Responses that carry no object or array.
NonLiterals == { TextNumber, TextString, TextProse, <<>> }

FenceOpenings ==
    { <<"BACKTICK", "BACKTICK", "BACKTICK", "j", "s", "o", "n", "\n">>,
      <<"BACKTICK", "BACKTICK", "BACKTICK", " ", "J", "S", "O", "N", " ", "a", "\n">>,
      <<"BACKTICK", "BACKTICK", "BACKTICK", "\n">> }
FenceClosing == <<"\n", "BACKTICK", "BACKTICK", "BACKTICK">>

ProsePrefixes == { <<"BOM", "a", " ", "a", ":", "\n">>, <<" ", "a", ":", " ">> }
ProseSuffixes == { <<>>, <<"\n", "a", ".", "\n">> }

\* s without its i-th character.
RemoveAt(s, i) == SubSeq(s, 1, i - 1) \o SubSeq(s, i + 1, Len(s))

\* How many characters a response may lose.
MaxDrops == 1

Pending == [ok |-> FALSE, value |-> <<>>, error |-> "pending"]

\* The extractor harness at rest, for the specifications of the other components.
ExtractIdle ==
    /\ origin = <<>>
    /\ drops = 0
    /\ wrapping = <<>>
    /\ text = <<>>
    /\ extraction = Pending

ExtractInit ==
    /\ origin \in Literals \cup NonLiterals
    /\ drops = 0
    /\ wrapping = <<>>
    /\ text = origin
    /\ extraction = Pending
    /\ AggIdle
    /\ FlowIdle
    /\ ScoreIdle
    /\ TrainingIdle
    /\ ConnectIdle
    /\ BranchIdle
    /\ AuthIdle
    /\ PipeIdle

\* The model loses one character of the value (truncated or garbled output).
DropChar ==
    /\ extraction = Pending
    /\ wrapping = <<>>
    /\ drops < MaxDrops
    /\ \E i \in 1..Len(text) : text' = RemoveAt(text, i)
    /\ drops' = drops + 1
    /\ UNCHANGED <<origin, wrapping, extraction, notExtract>>

\* The model wraps the value in a markdown code fence.
WrapInFence ==
    /\ extraction = Pending
    /\ wrapping = <<>>
    /\ \E open \in FenceOpenings : text' = open \o text \o FenceClosing
    /\ wrapping' = <<"fence">>
    /\ UNCHANGED <<origin, drops, extraction, notExtract>>

\* The model surrounds its output with explanatory prose.
WrapInProse ==
    /\ extraction = Pending
    /\ wrapping \in { <<>>, <<"fence">> }
    /\ \E pre \in ProsePrefixes, post \in ProseSuffixes : text' = pre \o text \o post
    /\ wrapping' = Append(wrapping, "prose")
    /\ UNCHANGED <<origin, drops, extraction, notExtract>>

\* A caller runs extractValidJson on the response.
Extract ==
    /\ extraction = Pending
    /\ extraction' = extractValidJson(text)
    /\ UNCHANGED <<origin, drops, wrapping, text, notExtract>>

ExtractNext == DropChar \/ WrapInFence \/ WrapInProse \/ Extract

SpecExtract == ExtractInit /\ [][ExtractNext]_vars

-----------------------------------------------------------------------------
(* Properties of the extractor                                             *)

Extracted == extraction # Pending

\* A well-formed object or array literal.
IsLiteral(s) == s # <<>> /\ Head(s) \in {"{", "["} /\ JsonParses(s)

HasOpener(s) == IndexOf(s, "{") # 0 \/ IndexOf(s, "[") # 0

\* The openers of s left unmatched by a string-aware pass that pairs every
\* closer with the nearest open opener of its own kind on top of the stack.
RECURSIVE UnmatchedOpeners(_, _, _, _, _)
UnmatchedOpeners(s, i, stack, inString, escaped) ==
    IF i > Len(s) THEN stack
    ELSE IF escaped THEN UnmatchedOpeners(s, i + 1, stack, inString, FALSE)
    ELSE IF s[i] = "\\" THEN UnmatchedOpeners(s, i + 1, stack, inString, TRUE)
    ELSE IF s[i] = "\"" THEN UnmatchedOpeners(s, i + 1, stack, ~inString, FALSE)
    ELSE IF inString THEN UnmatchedOpeners(s, i + 1, stack, inString, FALSE)
    ELSE IF s[i] \in {"{", "["}
    THEN UnmatchedOpeners(s, i + 1, Append(stack, s[i]), inString, FALSE)
    ELSE IF /\ stack # <<>>
            /\ \/ s[i] = "}" /\ stack[Len(stack)] = "{"
               \/ s[i] = "]" /\ stack[Len(stack)] = "["
    THEN UnmatchedOpeners(s, i + 1, SubSeq(stack, 1, Len(stack) - 1), inString, FALSE)
    ELSE UnmatchedOpeners(s, i + 1, stack, inString, FALSE)

\* s holds an opening brace whose matching closer is absent.
HasUnclosedBrace(s) ==
    \E k \in DOMAIN UnmatchedOpeners(s, 1, <<>>, FALSE, FALSE) :
        UnmatchedOpeners(s, 1, <<>>, FALSE, FALSE)[k] = "{"

\* C1: a well-formed object or array literal wrapped in a code fence and then
\* in explanatory prose is returned exactly as it was.
C1_RoundTrip ==
    (Extracted /\ IsLiteral(origin) /\ drops = 0 /\ wrapping = <<"fence", "prose">>)
        => extraction = Returned(origin)

\* C2: a response with an opening brace whose matching closer is absent always
\* fails with the unmatched-brackets error.
C2_UnclosedBraceFails ==
    (Extracted /\ HasUnclosedBrace(text)) => extraction = Thrown(ErrUnmatched)

\* C10 as stated: a response without any opening brace or bracket fails with
\* the no-JSON-found error.
C10_NoOpenerFails ==
    (Extracted /\ ~HasOpener(text)) => extraction = Thrown(ErrNoJson)

\* The response is itself valid JSON, as trimmed or once its fences are removed.
ParsesWhole(s) ==
    \/ JsonParses(Trim(StripBom(s)))
    \/ JsonParses(Trim(RemoveMarkdown(Trim(StripBom(s)))))

\* C10 (amended): a response without any opening brace or bracket that is not
\* itself valid JSON (a bare scalar), as trimmed or after fence removal, fails
\* with the no-JSON-found error; a bare scalar is returned as it is.
C10_NoOpenerNoScalarFails ==
    /\ (Extracted /\ ~HasOpener(text) /\ ~ParsesWhole(text))
           => extraction = Thrown(ErrNoJson)
    /\ (Extracted /\ ~HasOpener(text) /\ ParsesWhole(text))
           => extraction.ok

\* C10 witness: a prose-only response has been rejected with the no-JSON error.
C10_Witness ==
    /\ Extracted
    /\ text # <<>>
    /\ ~HasOpener(text)
    /\ ~ParsesWhole(text)
    /\ extraction = Thrown(ErrNoJson)

\* Whether the braces and brackets of s outside its string literals are
\* properly nested from position i on, with the first opener closed by the last
\* character and not before.
RECURSIVE NestedFrom(_, _, _, _, _)
NestedFrom(s, i, stack, inString, escaped) ==
    IF i > Len(s) THEN stack = <<>> /\ ~inString
    ELSE IF i > 1 /\ stack = <<>> THEN FALSE
    ELSE IF escaped THEN NestedFrom(s, i + 1, stack, inString, FALSE)
    ELSE IF inString /\ s[i] = "\\" THEN NestedFrom(s, i + 1, stack, inString, TRUE)
    ELSE IF s[i] = "\"" THEN NestedFrom(s, i + 1, stack, ~inString, FALSE)
    ELSE IF inString THEN NestedFrom(s, i + 1, stack, inString, FALSE)
    ELSE IF s[i] \in {"{", "["}
    THEN NestedFrom(s, i + 1, Append(stack, s[i]), inString, FALSE)
    ELSE IF s[i] \in {"}", "]"}
    THEN /\ stack # <<>>
         /\ stack[Len(stack)] = (IF s[i] = "}" THEN "{" ELSE "[")
         /\ NestedFrom(s, i + 1, SubSeq(stack, 1, Len(stack) - 1), inString, FALSE)
    ELSE NestedFrom(s, i + 1, stack, inString, FALSE)

\* One balanced object or array literal: an opener first, its closer last, and
\* everything between properly nested.
IsBalancedLiteral(s) ==
    /\ s # <<>>
    /\ s[1] \in {"{", "["}
    /\ s[Len(s)] = (IF s[1] = "{" THEN "}" ELSE "]")
    /\ NestedFrom(s, 1, <<>>, FALSE, FALSE)

\* C11: whenever extractValidJson returns, the returned text is one balanced
\* object or array literal: it starts with an opener, ends with the matching
\* closer, and its braces and brackets outside strings are properly nested.
C11_ReturnsBalancedLiteral ==
    (Extracted /\ extraction.ok) => IsBalancedLiteral(extraction.value)

-----------------------------------------------------------------------------
(* Exact arithmetic on fractions <<numerator, denominator>>, denominator   *)
(* positive, standing for the floating-point numbers of the source.        *)

RECURSIVE Gcd(_, _)
Gcd(a, b) == IF b = 0 THEN a ELSE Gcd(b, a % b)

Abs(n) == IF n < 0 THEN -n ELSE n

Frac(n, d) ==
    LET g == Gcd(Abs(n), d)
    IN  IF n = 0 THEN <<0, 1>> ELSE <<n \div g, d \div g>>

Whole(n)     == <<n, 1>>
FAdd(a, b)   == Frac(a[1] * b[2] + b[1] * a[2], a[2] * b[2])
FSub(a, b)   == Frac(a[1] * b[2] - b[1] * a[2], a[2] * b[2])
FMul(a, b)   == Frac(a[1] * b[1], a[2] * b[2])
\* a / b for b > 0
FDiv(a, b)   == Frac(a[1] * b[2], a[2] * b[1])
FLess(a, b)  == a[1] * b[2] < b[1] * a[2]
FLeq(a, b)   == a[1] * b[2] <= b[1] * a[2]
FEq(a, b)    == a[1] * b[2] = b[1] * a[2]
FMin(a, b)   == IF FLess(b, a) THEN b ELSE a
FMax(a, b)   == IF FLess(a, b) THEN b ELSE a
\* Math.round: the nearest integer, halves rounded up.
FRound(a)    == (2 * a[1] + a[2]) \div (2 * a[2])

\* Array.prototype.reduce((sum, x) => sum + f(x), 0) over fractions.
RECURSIVE FSum(_)
FSum(xs) == IF xs = <<>> THEN Whole(0) ELSE FAdd(Head(xs), FSum(Tail(xs)))

-----------------------------------------------------------------------------
(* aggregatePairSentiments                                                 *)

\* A sentiment judgment; the components are given in hundredths.
Judgment(p, n, g, score) ==
    [positive |-> Frac(p, 100), neutral |-> Frac(n, 100), negative |-> Frac(g, 100),
     overallScore |-> Whole(score)]

\* The error fallback of analyzeQAPairSentiment in place of the neutral default.
EmptyBatchDefault_ErrorFallback == Judgment(20, 70, 10, 5)
\* The judgment returned for either role when there is no exchange.
EmptyBatchDefault == Judgment(20, 80, 0, 5)

\* The thresholds of a strong signal.
StrongPositiveShare  == Frac(5, 10)
StrongNegativeShare  == Frac(4, 10)
HighScore == 7
LowScore  == 4
\* The amplification factors and the score shift.
Boost     == Frac(12, 10)
Damp      == Frac(9, 10)
ScoreShift == Frac(5, 10)

hasStrongPositive_AtLeast(sentiments) ==
    \E k \in DOMAIN sentiments :
        \/ FLeq(StrongPositiveShare, sentiments[k].positive)
        \/ FLeq(Whole(HighScore), sentiments[k].overallScore)

hasStrongPositive(sentiments) ==
    \E k \in DOMAIN sentiments :
        \/ FLess(StrongPositiveShare, sentiments[k].positive)
        \/ FLess(Whole(HighScore), sentiments[k].overallScore)

hasStrongNegative(sentiments) ==
    \E k \in DOMAIN sentiments :
        \/ FLess(StrongNegativeShare, sentiments[k].negative)
        \/ FLess(sentiments[k].overallScore, Whole(LowScore))

\* Math.min(1, avg * 1.2)
Amplified_NoBoost(avg) == FMin(Whole(1), avg)
Amplified(avg) == FMin(Whole(1), FMul(avg, Boost))

\* Math.max(0, avgNeutral * 0.9)
Damped(avg) == FMax(Whole(0), FMul(avg, Damp))

\* Math.min(10, Math.round(avgScore + 0.5))
RaisedScore_RoundFirst(avg) == FMin(Whole(10), FAdd(Whole(FRound(avg)), ScoreShift))
RaisedScore(avg) == FMin(Whole(10), Whole(FRound(FAdd(avg, ScoreShift))))

\* Math.max(1, Math.round(avgScore - 0.5))
LoweredScore_RoundFirst(avg) == FMax(Whole(1), FSub(Whole(FRound(avg)), ScoreShift))
LoweredScore(avg) == FMax(Whole(1), Whole(FRound(FSub(avg, ScoreShift))))

\* The final division by the total, skipped when the total is 0.
Renormalized_Skipped(fin) == fin
Renormalized(fin) ==
    LET total == FAdd(FAdd(fin.positive, fin.neutral), fin.negative)
    IN  IF FLess(Whole(0), total)
        THEN [fin EXCEPT !.positive = FDiv(fin.positive, total),
                         !.neutral  = FDiv(fin.neutral, total),
                         !.negative = FDiv(fin.negative, total)]
        ELSE fin

Column(sentiments, field) == [k \in DOMAIN sentiments |-> sentiments[k][field]]

\* The arithmetic mean of one field over the batch.
Average(sentiments, field) ==
    FDiv(FSum(Column(sentiments, field)), Whole(Len(sentiments)))

\* aggregateRole for the judgments of one role, in batch order.
aggregateRole(sentiments) ==
    LET avgPositive == Average(sentiments, "positive")
        avgNeutral  == Average(sentiments, "neutral")
        avgNegative == Average(sentiments, "negative")
        avgScore    == Average(sentiments, "overallScore")
        strongPos   == hasStrongPositive(sentiments)
        strongNeg   == hasStrongNegative(sentiments)
        fin == IF strongPos /\ ~strongNeg
               THEN [positive |-> Amplified(avgPositive),
                     neutral  |-> Damped(avgNeutral),
                     negative |-> avgNegative,
                     overallScore |-> RaisedScore(avgScore)]
               ELSE IF strongNeg /\ ~strongPos
               THEN [positive |-> avgPositive,
                     neutral  |-> Damped(avgNeutral),
                     negative |-> Amplified(avgNegative),
                     overallScore |-> LoweredScore(avgScore)]
               ELSE [positive |-> avgPositive,
                     neutral  |-> avgNeutral,
                     negative |-> avgNegative,
                     overallScore |-> Whole(FRound(avgScore))]
    IN  Renormalized(fin)

aggregatePairSentiments(analyses) ==
    IF Len(analyses) = 0
    THEN [done |-> TRUE,
          recruiterSentiment |-> EmptyBatchDefault,
          candidateSentiment |-> EmptyBatchDefault]
    ELSE [done |-> TRUE,
          recruiterSentiment |->
              aggregateRole([k \in DOMAIN analyses |-> analyses[k].recruiterSentiment]),
          candidateSentiment |->
              aggregateRole([k \in DOMAIN analyses |-> analyses[k].candidateSentiment])]

\* Judgments analyzeQAPairSentiment can return for the recruiter: every
\* component clamped to [0,1] on its own, the score clamped to [1,10].
RecruiterJudgments ==
    { Judgment(0, 0, 0, 5),        \* the model gave no components
      Judgment(0, 0, 0, 8),        \* no components and a high score
      Judgment(25, 70, 5, 5),      \* the error fallback
      Judgment(70, 20, 10, 8),     \* clearly positive
      Judgment(70, 0, 30, 8),      \* positive, no neutral share
      Judgment(100, 0, 0, 9),      \* wholly positive
      Judgment(70, 20, 10, 3),     \* positive share with a low score
      Judgment(10, 30, 60, 2),     \* clearly negative
      Judgment(70, 100, 40, 5),    \* components that do not sum to 1
      Judgment(50, 10, 40, 7) }    \* exactly on the thresholds

CandidateJudgments ==
    { Judgment(20, 70, 10, 5),     \* the error fallback
      Judgment(80, 10, 10, 10),
      Judgment(0, 50, 50, 1) }

\* The most exchanges of one batch.
MaxBatch == 2

AggInit ==
    /\ pairAnalyses = <<>>
    /\ sentimentResult = NoResult
    /\ ExtractIdle
    /\ FlowIdle
    /\ ScoreIdle
    /\ TrainingIdle
    /\ ConnectIdle
    /\ BranchIdle
    /\ AuthIdle
    /\ PipeIdle

\* One more exchange has been analysed (analyzeQAPairSentiment returned).
AnalyzePair ==
    /\ ~sentimentResult.done
    /\ Len(pairAnalyses) < MaxBatch
    /\ \E r \in RecruiterJudgments, c \in CandidateJudgments :
           pairAnalyses' = Append(pairAnalyses,
                                  [recruiterSentiment |-> r, candidateSentiment |-> c])
    /\ UNCHANGED <<sentimentResult, notAgg>>

\* The batch is aggregated.
Aggregate ==
    /\ ~sentimentResult.done
    /\ sentimentResult' = aggregatePairSentiments(pairAnalyses)
    /\ UNCHANGED <<pairAnalyses, notAgg>>

AggNext == AnalyzePair \/ Aggregate

SpecAgg == AggInit /\ [][AggNext]_vars

-----------------------------------------------------------------------------
(* Properties of the aggregator                                            *)

Roles == {"recruiterSentiment", "candidateSentiment"}

Aggregated == sentimentResult.done

\* The judgments of one role in the batch.
Samples(role) == [k \in DOMAIN pairAnalyses |-> pairAnalyses[k][role]]

InUnit(x) == FLeq(Whole(0), x) /\ FLeq(x, Whole(1))

ShareSum(j) == FAdd(FAdd(j.positive, j.neutral), j.negative)

Bounded(j) ==
    /\ InUnit(j.positive) /\ InUnit(j.neutral) /\ InUnit(j.negative)
    /\ FLeq(Whole(1), j.overallScore) /\ FLeq(j.overallScore, Whole(10))

\* Every judgment of the role has all three components 0.
AllZero(role) ==
    \A k \in DOMAIN pairAnalyses : FEq(ShareSum(pairAnalyses[k][role]), Whole(0))

\* C3 as stated: for a non-empty batch the merged components of each role are
\* in [0,1] and sum to 1, and the merged score is in [1,10].
C3_SumsToOne ==
    (Aggregated /\ pairAnalyses # <<>>) =>
        \A role \in Roles :
            /\ Bounded(sentimentResult[role])
            /\ FEq(ShareSum(sentimentResult[role]), Whole(1))

\* C3 (amended): for a non-empty batch the merged components of each role are
\* in [0,1] and the merged score is in [1,10]; the components sum to 1 unless
\* every judgment of the role has all three components 0, and then all three
\* merged components are 0.
C3_SumsToOneUnlessAllZero ==
    (Aggregated /\ pairAnalyses # <<>>) =>
        \A role \in Roles :
            /\ Bounded(sentimentResult[role])
            /\ IF AllZero(role)
               THEN FEq(ShareSum(sentimentResult[role]), Whole(0))
               ELSE FEq(ShareSum(sentimentResult[role]), Whole(1))

\* C3 witness: an amplified, re-normalised batch of two exchanges.
C3_Witness ==
    /\ Aggregated
    /\ Len(pairAnalyses) = 2
    /\ hasStrongPositive(Samples("recruiterSentiment"))
    /\ ~hasStrongNegative(Samples("recruiterSentiment"))
    /\ ~FEq(ShareSum(pairAnalyses[1].recruiterSentiment), Whole(1))
    /\ FEq(ShareSum(sentimentResult.recruiterSentiment), Whole(1))

EveryPositiveAbove60(role) ==
    \A k \in DOMAIN pairAnalyses : FLess(Frac(6, 10), pairAnalyses[k][role].positive)

MeanPositive(role) == Average(Samples(role), "positive")

\* C4 as stated: when every judgment has positive > 0.6 the merged positive is
\* strictly greater than the plain mean of the positives.
C4_Amplification ==
    (Aggregated /\ pairAnalyses # <<>>) =>
        \A role \in Roles :
            EveryPositiveAbove60(role) =>
                FLess(MeanPositive(role), sentimentResult[role].positive)

\* C4 (amended): when every judgment has positive > 0.6, components summing to
\* at most 1 and overallScore >= 4, and not every positive is 1, the merged
\* positive is strictly greater than the plain mean of the positives.
C4_AmplificationWhenUnopposed ==
    (Aggregated /\ pairAnalyses # <<>>) =>
        \A role \in Roles :
            ( /\ EveryPositiveAbove60(role)
              /\ \A k \in DOMAIN pairAnalyses :
                    /\ FLeq(ShareSum(pairAnalyses[k][role]), Whole(1))
                    /\ FLeq(Whole(4), pairAnalyses[k][role].overallScore)
              /\ \E k \in DOMAIN pairAnalyses :
                    FLess(pairAnalyses[k][role].positive, Whole(1)) )
            => FLess(MeanPositive(role), sentimentResult[role].positive)

\* C4 witness: two positive judgments, one of them wholly positive, merged
\* above their mean.
C4_Witness ==
    /\ Aggregated
    /\ Len(pairAnalyses) = 2
    /\ EveryPositiveAbove60("recruiterSentiment")
    /\ FEq(pairAnalyses[1].recruiterSentiment.positive, Whole(1))
    /\ FLess(pairAnalyses[2].recruiterSentiment.positive, Whole(1))
    /\ FLess(MeanPositive("recruiterSentiment"), sentimentResult.recruiterSentiment.positive)

\* C12: for an empty batch aggregatePairSentiments returns, for each role, the
\* neutral default positive 0.2, neutral 0.8, negative 0, overallScore 5.
C12_EmptyBatchDefault ==
    (Aggregated /\ pairAnalyses = <<>>) =>
        \A role \in Roles :
            /\ FEq(sentimentResult[role].positive, Frac(2, 10))
            /\ FEq(sentimentResult[role].neutral, Frac(8, 10))
            /\ FEq(sentimentResult[role].negative, Whole(0))
            /\ FEq(sentimentResult[role].overallScore, Whole(5))

\* C12 witness: an empty batch has been aggregated.
C12_Witness ==
    /\ Aggregated
    /\ pairAnalyses = <<>>
    /\ DOMAIN sentimentResult = {"done"} \cup Roles

\* The mean of one field over the judgments of a role.
MeanOf(role, field) ==
    FDiv(FSum([k \in DOMAIN pairAnalyses |-> pairAnalyses[k][role][field]]),
         Whole(Len(pairAnalyses)))

\* Some judgment of the role has positive > 0.5 or overallScore > 7.
PositiveSignal(role) ==
    \E k \in DOMAIN pairAnalyses :
        \/ FLess(Frac(1, 2), pairAnalyses[k][role].positive)
        \/ FLess(Whole(7), pairAnalyses[k][role].overallScore)

\* Some judgment of the role has negative > 0.4 or overallScore < 4.
NegativeSignal(role) ==
    \E k \in DOMAIN pairAnalyses :
        \/ FLess(Frac(2, 5), pairAnalyses[k][role].negative)
        \/ FLess(pairAnalyses[k][role].overallScore, Whole(4))

\* The merged components of the role are p, n and g divided by their sum, or
\* p, n and g themselves when the sum is 0.
MergedFrom(role, p, n, g) ==
    \E total \in { FAdd(FAdd(p, n), g) } :
        IF FLess(Whole(0), total)
        THEN /\ FEq(sentimentResult[role].positive, FDiv(p, total))
             /\ FEq(sentimentResult[role].neutral, FDiv(n, total))
             /\ FEq(sentimentResult[role].negative, FDiv(g, total))
        ELSE /\ FEq(sentimentResult[role].positive, p)
             /\ FEq(sentimentResult[role].neutral, n)
             /\ FEq(sentimentResult[role].negative, g)

\* The mean of the field times 12/10, at most 1.
ScaledUp(role, field) == FMin(Whole(1), FMul(Frac(12, 10), MeanOf(role, field)))

\* The mean of the neutrals times 9/10.
ScaledDown(role) == FMul(Frac(9, 10), MeanOf(role, "neutral"))

PositiveOnly(role) ==
    /\ Aggregated
    /\ pairAnalyses # <<>>
    /\ PositiveSignal(role)
    /\ ~NegativeSignal(role)

NegativeOnly(role) ==
    /\ Aggregated
    /\ pairAnalyses # <<>>
    /\ NegativeSignal(role)
    /\ ~PositiveSignal(role)

\* C18 as stated: with a positive signal and no negative one, the merged
\* components are the mean positive times 1.2 (at most 1), the mean neutral
\* times 0.9 and the mean negative, re-normalised, and the merged score is the
\* rounded mean score plus 0.5, at most 10.
C18_RoundedThenRaised ==
    \A role \in Roles :
        PositiveOnly(role) =>
            /\ MergedFrom(role, ScaledUp(role, "positive"), ScaledDown(role),
                          MeanOf(role, "negative"))
            /\ FEq(sentimentResult[role].overallScore,
                   FMin(Whole(10),
                        FAdd(Whole(FRound(MeanOf(role, "overallScore"))), Frac(1, 2))))

\* C18 (amended): with a positive signal and no negative one, the merged
\* components are the mean positive times 1.2 (at most 1), the mean neutral
\* times 0.9 and the mean negative, re-normalised, and the merged score is the
\* mean score plus 0.5, rounded (halves up), at most 10.
C18_RaisedThenRounded ==
    \A role \in Roles :
        PositiveOnly(role) =>
            /\ MergedFrom(role, ScaledUp(role, "positive"), ScaledDown(role),
                          MeanOf(role, "negative"))
            /\ FEq(sentimentResult[role].overallScore,
                   FMin(Whole(10),
                        Whole(FRound(FAdd(MeanOf(role, "overallScore"), Frac(1, 2))))))

\* C18 witness: the recruiter's one judgment is clearly positive with score
\* 8; the merged score is 9 and the positive share 0.84 / 1.12.
C18_Witness ==
    /\ PositiveOnly("recruiterSentiment")
    /\ Len(pairAnalyses) = 1
    /\ pairAnalyses[1].recruiterSentiment = Judgment(70, 20, 10, 8)
    /\ FEq(sentimentResult.recruiterSentiment.overallScore, Whole(9))
    /\ FEq(sentimentResult.recruiterSentiment.positive, Frac(84, 112))

\* C19 as stated: with a negative signal and no positive one, the merged
\* components are the mean positive, the mean neutral times 0.9 and the mean
\* negative times 1.2 (at most 1), re-normalised, and the merged score is the
\* rounded mean score minus 0.5, at least 1.
C19_RoundedThenLowered ==
    \A role \in Roles :
        NegativeOnly(role) =>
            /\ MergedFrom(role, MeanOf(role, "positive"), ScaledDown(role),
                          ScaledUp(role, "negative"))
            /\ FEq(sentimentResult[role].overallScore,
                   FMax(Whole(1),
                        FSub(Whole(FRound(MeanOf(role, "overallScore"))), Frac(1, 2))))

\* C19 (amended): with a negative signal and no positive one, the merged
\* components are the mean positive, the mean neutral times 0.9 and the mean
\* negative times 1.2 (at most 1), re-normalised, and the merged score is the
\* mean score minus 0.5, rounded (halves up, so a whole mean is returned
\* unchanged), at least 1.
C19_LoweredThenRounded ==
    \A role \in Roles :
        NegativeOnly(role) =>
            /\ MergedFrom(role, MeanOf(role, "positive"), ScaledDown(role),
                          ScaledUp(role, "negative"))
            /\ FEq(sentimentResult[role].overallScore,
                   FMax(Whole(1),
                        Whole(FRound(FSub(MeanOf(role, "overallScore"), Frac(1, 2))))))

\* C19 witness: the recruiter's one judgment is clearly negative with score
\* 2; the merged score is 2 and the negative share 0.72 / 1.09.
C19_Witness ==
    /\ NegativeOnly("recruiterSentiment")
    /\ Len(pairAnalyses) = 1
    /\ pairAnalyses[1].recruiterSentiment = Judgment(10, 30, 60, 2)
    /\ FEq(sentimentResult.recruiterSentiment.overallScore, Whole(2))
    /\ FEq(sentimentResult.recruiterSentiment.negative, Frac(72, 109))

\* C20: when a role has both a positive signal (some positive > 0.5 or score
\* > 7) and a negative signal (some negative > 0.4 or score < 4), or neither,
\* its merged components are the plain means, re-normalised, and its merged
\* score is the rounded mean score.
C20_NoAmplification ==
    \A role \in Roles :
        (/\ Aggregated
         /\ pairAnalyses # <<>>
         /\ PositiveSignal(role) <=> NegativeSignal(role)) =>
            /\ MergedFrom(role, MeanOf(role, "positive"), MeanOf(role, "neutral"),
                          MeanOf(role, "negative"))
            /\ FEq(sentimentResult[role].overallScore,
                   Whole(FRound(MeanOf(role, "overallScore"))))

\* C20 witness: the recruiter's judgments are one exactly on the thresholds
\* (no signal) and one clearly positive with a low score (both signals); the
\* merged positive is the plain mean 0.6 over the total 1.
C20_Witness ==
    /\ Aggregated
    /\ Len(pairAnalyses) = 2
    /\ pairAnalyses[1].recruiterSentiment = Judgment(50, 10, 40, 7)
    /\ pairAnalyses[2].recruiterSentiment = Judgment(70, 20, 10, 3)
    /\ PositiveSignal("recruiterSentiment")
    /\ NegativeSignal("recruiterSentiment")
    /\ FEq(sentimentResult.recruiterSentiment.positive, Frac(6, 10))
    /\ FEq(sentimentResult.recruiterSentiment.overallScore, Whole(5))

-----------------------------------------------------------------------------
(* Strings of the flow analysis                                            *)

UpperCase ==
    <<"A", "B", "C", "D", "E", "F", "G", "H", "I", "J", "K", "L", "M",
      "N", "O", "P", "Q", "R", "S", "T", "U", "V", "W", "X", "Y", "Z">>
LowerCase ==
    <<"a", "b", "c", "d", "e", "f", "g", "h", "i", "j", "k", "l", "m",
      "n", "o", "p", "q", "r", "s", "t", "u", "v", "w", "x", "y", "z">>

LowerChar(c) ==
    IF \E k \in DOMAIN UpperCase : UpperCase[k] = c
    THEN LowerCase[CHOOSE k \in DOMAIN UpperCase : UpperCase[k] = c]
    ELSE c

\* String.prototype.toLowerCase
ToLowerCase(s) == [k \in DOMAIN s |-> LowerChar(s[k])]

\* String.prototype.split on runs of whitespace, from index i with the word
\* collected so far; leading or trailing whitespace yields an empty word.
RECURSIVE SplitFrom(_, _, _)
SplitFrom(s, i, word) ==
    IF i > Len(s) THEN <<word>>
    ELSE IF IsWhitespace(s[i]) THEN <<word>> \o SplitFrom(s, SkipWhitespace(s, i), <<>>)
    ELSE SplitFrom(s, i + 1, Append(word, s[i]))

SplitWords(s) == SplitFrom(s, 1, <<>>)

\* Array.prototype.includes
ArrayIncludes(xs, x) == \E k \in DOMAIN xs : xs[k] = x

\* String.prototype.includes
StringIncludes(s, sub) == \E i \in 1..(Len(s) + 1) : MatchAt(s, i, sub)

-----------------------------------------------------------------------------
(* buildFlowGraph and analyzeQuestionConnection                            *)

\* Node ids: the letter and the 0-based turn index.
QId(i) == <<"q", i>>
AId(i) == <<"a", i>>

FollowUpStrength     == Frac(8, 10)
TopicShiftStrength   == Frac(5, 10)
DisconnectedStrength == Frac(2, 10)
\* Shared words count only when longer than this.
KeywordMinLength == 4

\* prevWords.filter(w => nextWords.includes(w) && w.length > minLength), from index k.
RECURSIVE SharedFrom(_, _, _, _)
SharedFrom(prevWords, nextWords, minLength, k) ==
    IF k > Len(prevWords) THEN <<>>
    ELSE IF ArrayIncludes(nextWords, prevWords[k]) /\ Len(prevWords[k]) > minLength
         THEN <<prevWords[k]>> \o SharedFrom(prevWords, nextWords, minLength, k + 1)
         ELSE SharedFrom(prevWords, nextWords, minLength, k + 1)

\* The connection for a given list of shared keywords.
Classify(sharedKeywords) ==
    IF Len(sharedKeywords) >= 2
    THEN [type |-> "follow_up", strength |-> FollowUpStrength,
          reasoning |-> "Follow-up on same topic",
          keywords |-> SubSeq(sharedKeywords, 1, 2)]
    ELSE IF Len(sharedKeywords) = 1
    THEN [type |-> "topic_shift", strength |-> TopicShiftStrength,
          reasoning |-> "Related but different topic", keywords |-> <<>>]
    ELSE [type |-> "disconnected", strength |-> DisconnectedStrength,
          reasoning |-> "No clear logical connection", keywords |-> <<>>]

\* analyzeQuestionConnection counting words of more than 3 characters.
analyzeQuestionConnection_Min3(prevQ, nextQ) ==
    Classify(SharedFrom(SplitWords(ToLowerCase(prevQ)), SplitWords(ToLowerCase(nextQ)), 3, 1))

analyzeQuestionConnection(prevQ, nextQ) ==
    Classify(SharedFrom(SplitWords(ToLowerCase(prevQ)), SplitWords(ToLowerCase(nextQ)),
                        KeywordMinLength, 1))

\* x || fallback for a timestamp: 0 and undefined are both falsy.
OrElse(x, fallback) == IF x = 0 THEN fallback ELSE x

\* The first loop of buildFlowGraph from 0-based index i: the nodes pushed.
RECURSIVE NodesFrom(_, _, _)
NodesFrom(qs, as, i) ==
    IF i >= Len(qs) THEN <<>>
    ELSE <<[id |-> QId(i), type |-> "question", text |-> qs[i + 1].text,
            timestamp |-> OrElse(qs[i + 1].timestamp, i * 2), speaker |-> "recruiter"]>>
         \o (IF i < Len(as)
             THEN <<[id |-> AId(i), type |-> "answer", text |-> as[i + 1].text,
                     timestamp |-> OrElse(as[i + 1].timestamp, i * 2 + 1),
                     speaker |-> "candidate"]>>
             ELSE <<>>)
         \o NodesFrom(qs, as, i + 1)

\* The first loop of buildFlowGraph from 0-based index i: the edges pushed.
RECURSIVE DirectEdgesFrom(_, _, _)
DirectEdgesFrom(qs, as, i) ==
    IF i >= Len(qs) THEN <<>>
    ELSE (IF i < Len(as)
          THEN <<[from |-> QId(i), to |-> AId(i), type |-> "direct_response",
                  strength |-> Whole(1),
                  logicalConnection |-> [reasoning |-> "Direct response to question",
                                         keywords |-> <<>>]]>>
          ELSE <<>>)
         \o DirectEdgesFrom(qs, as, i + 1)

\* The second loop of buildFlowGraph stopping one pair early.
RECURSIVE ContinuityEdgesFrom_StopsEarly(_, _)
ContinuityEdgesFrom_StopsEarly(qs, i) ==
    IF i >= Len(qs) - 2 THEN <<>>
    ELSE LET connectionType == analyzeQuestionConnection(qs[i + 1].text, qs[i + 2].text)
         IN  <<[from |-> AId(i), to |-> QId(i + 1), type |-> connectionType.type,
                strength |-> connectionType.strength,
                logicalConnection |-> [reasoning |-> connectionType.reasoning,
                                       keywords |-> connectionType.keywords]]>>
             \o ContinuityEdgesFrom_StopsEarly(qs, i + 1)

\* The second loop of buildFlowGraph from 0-based index i: the edges pushed.
RECURSIVE ContinuityEdgesFrom(_, _)
ContinuityEdgesFrom(qs, i) ==
    IF i >= Len(qs) - 1 THEN <<>>
    ELSE LET connectionType == analyzeQuestionConnection(qs[i + 1].text, qs[i + 2].text)
         IN  <<[from |-> AId(i), to |-> QId(i + 1), type |-> connectionType.type,
                strength |-> connectionType.strength,
                logicalConnection |-> [reasoning |-> connectionType.reasoning,
                                       keywords |-> connectionType.keywords]]>>
             \o ContinuityEdgesFrom(qs, i + 1)

buildFlowGraph(qs, as) ==
    [nodes |-> NodesFrom(qs, as, 0),
     edges |-> DirectEdgesFrom(qs, as, 0) \o ContinuityEdgesFrom(qs, 0)]

-----------------------------------------------------------------------------
(* Double-precision arithmetic, for the score that is claimed exactly.     *)
(* A natural number is a sequence of limbs of 15 bits, most significant    *)
(* first, without leading zeros; a double is zero or the record            *)
(* [m |-> a natural of exactly 53 bits, e |-> the exponent of its last    *)
(* bit], standing for m * 2^e. Only non-negative values occur.             *)

\* The significand of a JavaScript number.
SignificandBits == 53

LimbBits == 15

RECURSIVE Pow2(_)
Pow2(k) == IF k = 0 THEN 1 ELSE 2 * Pow2(k - 1)

Limb == Pow2(LimbBits)

\* The one element of a singleton set.
The(S) == CHOOSE x \in S : TRUE

RECURSIVE StripZeros(_)
StripZeros(a) ==
    IF a = <<>> \/ a[1] # 0 THEN a ELSE StripZeros(Tail(a))

PadLeft(a, l) == [i \in 1..(l - Len(a)) |-> 0] \o a

\* The number of bits of a non-negative integer below Limb.
RECURSIVE BitLength(_)
BitLength(k) == IF k = 0 THEN 0 ELSE 1 + BitLength(k \div 2)

Bits(a) == IF a = <<>> THEN 0 ELSE LimbBits * (Len(a) - 1) + BitLength(a[1])

\* The limbs 1..i of a + b + carry, for a and b of equal length.
RECURSIVE AddFrom(_, _, _, _)
AddFrom(a, b, i, carry) ==
    IF i = 0 THEN (IF carry = 0 THEN <<>> ELSE <<carry>>)
    ELSE The({ Append(AddFrom(a, b, i - 1, t \div Limb), t % Limb) :
               t \in { a[i] + b[i] + carry } })

AddNat(a, b) ==
    The({ AddFrom(PadLeft(a, l), PadLeft(b, l), l, 0) :
          l \in { IF Len(a) >= Len(b) THEN Len(a) ELSE Len(b) } })

\* The limbs 1..i of a * k + carry, for a natural k below Limb.
RECURSIVE TimesFrom(_, _, _, _)
TimesFrom(a, k, i, carry) ==
    IF i = 0 THEN (IF carry = 0 THEN <<>> ELSE <<carry>>)
    ELSE The({ Append(TimesFrom(a, k, i - 1, t \div Limb), t % Limb) :
               t \in { a[i] * k + carry } })

TimesNat(a, k) == StripZeros(TimesFrom(a, k, Len(a), 0))

\* a * 2^k
RECURSIVE ShiftLeft(_, _)
ShiftLeft(a, k) ==
    IF a = <<>> \/ k = 0 THEN a
    ELSE IF k >= LimbBits THEN ShiftLeft(Append(a, 0), k - LimbBits)
    ELSE TimesNat(a, Pow2(k))

\* Long division of a by the natural n, 0 < n <= Limb: quotient and remainder.
RECURSIVE DivFrom(_, _, _, _, _)
DivFrom(a, n, i, rem, q) ==
    IF i > Len(a) THEN [q |-> StripZeros(q), rem |-> rem]
    ELSE The({ DivFrom(a, n, i + 1, t % n, Append(q, t \div n)) :
               t \in { rem * Limb + a[i] } })

DivNat(a, n) == DivFrom(a, n, 1, 0, <<>>)

RECURSIVE NatLess(_, _, _)
NatLess(a, b, i) ==
    IF i > Len(a) THEN FALSE
    ELSE IF a[i] # b[i] THEN a[i] < b[i]
    ELSE NatLess(a, b, i + 1)

DblZero == [m |-> <<>>, e |-> 0]

\* Round to nearest, ties to even: the double nearest to a * 2^e, where
\* above says that the exact value lies a little above a * 2^e.
RECURSIVE RoundNat(_, _, _)
RoundNat(a, e, above) ==
    IF a = <<>> THEN DblZero
    ELSE IF Bits(a) <= SignificandBits
    THEN [m |-> ShiftLeft(a, SignificandBits - Bits(a)),
          e |-> e - (SignificandBits - Bits(a))]
    ELSE IF Bits(a) - SignificandBits > LimbBits
    THEN RoundNat(SubSeq(a, 1, Len(a) - 1), e + LimbBits, above \/ a[Len(a)] # 0)
    ELSE The({ IF \/ 2 * d.rem > Pow2(s)
                  \/ 2 * d.rem = Pow2(s) /\ (above \/ d.q[Len(d.q)] % 2 = 1)
               THEN RoundNat(AddNat(d.q, <<1>>), e + s, FALSE)
               ELSE [m |-> d.q, e |-> e + s] :
               d \in { DivNat(a, Pow2(s)) : s \in { Bits(a) - SignificandBits } },
               s \in { Bits(a) - SignificandBits } })

RoundToDouble(a, e, above) ==
    The({ RoundNat(b, e, above) : b \in { StripZeros(a) } })

\* The double of a natural below Limb.
DblOfInt(k) == RoundToDouble(<<k>>, 0, FALSE)

AddAligned(x, y) ==
    IF x.m = <<>> THEN y
    ELSE IF y.m = <<>> THEN x
    ELSE IF x.e >= y.e
    THEN RoundToDouble(AddNat(ShiftLeft(x.m, x.e - y.e), y.m), y.e, FALSE)
    ELSE RoundToDouble(AddNat(x.m, ShiftLeft(y.m, y.e - x.e)), x.e, FALSE)

\* a + b
DblAdd(a, b) == The({ AddAligned(x, y) : x \in {a}, y \in {b} })

\* Bits the quotient is carried beyond the dividend's: enough for a divisor
\* below 2^7 to leave the 53 bits and the rounding bit in the quotient.
GuardBits == 8

DivRounded(x, n) ==
    IF x.m = <<>> THEN x
    ELSE The({ RoundToDouble(d.q, x.e - GuardBits, d.rem # 0) :
               d \in { DivNat(ShiftLeft(x.m, GuardBits), n) } })

\* a / n for a natural n, 0 < n < 2^7
DblDivInt(a, n) == The({ DivRounded(x, n) : x \in {a} })

\* a * k for a natural k below Limb
DblTimesInt(a, k) == The({ RoundToDouble(TimesNat(x.m, k), x.e, FALSE) : x \in {a} })

\* The double a decimal literal n/d denotes.
DblOfFraction(f) == DblDivInt(DblOfInt(f[1]), f[2])

LessAligned(x, y) ==
    IF y.m = <<>> THEN FALSE
    ELSE IF x.m = <<>> THEN TRUE
    ELSE IF x.e # y.e THEN x.e < y.e
    ELSE NatLess(x.m, y.m, 1)

DblLess(a, b) == \E x \in {a}, y \in {b} : LessAligned(x, y)

DblLeq(a, b) == \E x \in {a}, y \in {b} : x = y \/ LessAligned(x, y)

-----------------------------------------------------------------------------
(* calculateLogicalScore                                                   *)

\* The doubles of the number literals 1.0, 0.8, 0.5 and 0.2.
DirectDouble       == DblOfInt(1)
FollowUpDouble     == DblOfFraction(FollowUpStrength)
TopicShiftDouble   == DblOfFraction(TopicShiftStrength)
DisconnectedDouble == DblOfFraction(DisconnectedStrength)

\* The double an edge holds as its strength.
DblOfStrength(f) ==
    IF f = FollowUpStrength THEN FollowUpDouble
    ELSE IF f = TopicShiftStrength THEN TopicShiftDouble
    ELSE IF f = DisconnectedStrength THEN DisconnectedDouble
    ELSE IF f = Whole(1) THEN DirectDouble
    ELSE DblOfFraction(f)

\* edges.reduce((sum, e) => sum + e.strength, 0), from edge k on.
RECURSIVE SumStrengthsFrom(_, _, _)
SumStrengthsFrom(edges, k, sum) ==
    IF k > Len(edges) THEN sum
    ELSE SumStrengthsFrom(edges, k + 1, DblAdd(sum, DblOfStrength(edges[k].strength)))

calculateLogicalScore_Total(edges) ==
    IF Len(edges) = 0 THEN DblZero
    ELSE DblTimesInt(SumStrengthsFrom(edges, 1, DblZero), 100)

calculateLogicalScore(edges) ==
    IF Len(edges) = 0 THEN DblZero
    ELSE DblTimesInt(DblDivInt(SumStrengthsFrom(edges, 1, DblZero), Len(edges)), 100)

-----------------------------------------------------------------------------
(* detectMissedFollowUps                                                   *)

\* edges.find(e => e.from === from && e.to === to): its index, 0 when absent.
FindEdge(edges, from, to) ==
    IF \E k \in DOMAIN edges : edges[k].from = from /\ edges[k].to = to
    THEN CHOOSE k \in DOMAIN edges :
            /\ edges[k].from = from /\ edges[k].to = to
            /\ \A j \in 1..(k - 1) : ~(edges[j].from = from /\ edges[j].to = to)
    ELSE 0

\* answer.keySkills.some(skill => nextQuestion.text.toLowerCase().includes(skill.toLowerCase()))
wasFollowedUp(answer, nextQuestion) ==
    \E k \in DOMAIN answer.keySkills :
        StringIncludes(ToLowerCase(nextQuestion.text), ToLowerCase(answer.keySkills[k]))

HighRecord(i, answer) ==
    [afterNode |-> AId(i),
     suggestedQuestion |-> [template |-> "Can you elaborate on your experience with ...?",
                            skill |-> answer.keySkills[1]],
     importance |-> "high",
     reasoning |-> [template |-> "Candidate mentioned ... but recruiter didn't explore further",
                    skills |-> answer.keySkills]]

MediumRecord(i) ==
    [afterNode |-> AId(i),
     suggestedQuestion |-> [template |-> "Can you tell me more about that?", skill |-> <<>>],
     importance |-> "medium",
     reasoning |-> [template |->
                        "Recruiter changed topic without properly exploring the previous answer",
                    skills |-> <<>>]]

\* The check pushing its record after a topic shift instead.
DisconnectedAfter_TopicShift(edges, i) ==
    LET e == FindEdge(edges, AId(i), QId(i + 1))
    IN  e # 0 /\ edges[e].type = "topic_shift"

\* Does the disconnected-edge check of iteration i push a record?
DisconnectedAfter(edges, i) ==
    LET e == FindEdge(edges, AId(i), QId(i + 1))
    IN  e # 0 /\ edges[e].type = "disconnected"

\* One iteration in which the second check is an else-branch of the first.
MissedAt_Exclusive(qs, as, edges, i) ==
    LET answer == as[i + 1]
        nextQuestion == qs[i + 2]
    IN  IF answer.hasKeySkills /\ Len(answer.keySkills) > 0
           /\ ~wasFollowedUp(answer, nextQuestion)
        THEN <<HighRecord(i, answer)>>
        ELSE IF DisconnectedAfter(edges, i) THEN <<MediumRecord(i)>> ELSE <<>>

\* One iteration that looks for the skills in the question just answered.
MissedAt_CurrentQuestion(qs, as, edges, i) ==
    LET answer == as[i + 1]
        nextQuestion == qs[i + 1]
    IN  (IF answer.hasKeySkills /\ Len(answer.keySkills) > 0
            /\ ~wasFollowedUp(answer, nextQuestion)
         THEN <<HighRecord(i, answer)>> ELSE <<>>)
        \o (IF DisconnectedAfter(edges, i) THEN <<MediumRecord(i)>> ELSE <<>>)

\* One iteration of the loop of detectMissedFollowUps, 0-based index i: the
\* records it pushes.
MissedAt(qs, as, edges, i) ==
    LET answer == as[i + 1]
        nextQuestion == qs[i + 2]
    IN  (IF answer.hasKeySkills /\ Len(answer.keySkills) > 0
            /\ ~wasFollowedUp(answer, nextQuestion)
         THEN <<HighRecord(i, answer)>> ELSE <<>>)
        \o (IF DisconnectedAfter(edges, i) THEN <<MediumRecord(i)>> ELSE <<>>)

RECURSIVE MissedFrom(_, _, _, _)
MissedFrom(qs, as, edges, i) ==
    IF i >= Len(as) - 1 THEN <<>>
    ELSE MissedAt(qs, as, edges, i) \o MissedFrom(qs, as, edges, i + 1)

detectMissedFollowUps(qs, as, edges) == MissedFrom(qs, as, edges, 0)

-----------------------------------------------------------------------------
(* Interviews handed to the flow analysis                                  *)

TextJava ==
    <<"W", "h", "a", "t", " ", "i", "s", " ", "y", "o", "u", "r", " ", "e", "x", "p", "e", "r", "i", "e", "n", "c", "e", " ", "w", "i", "t", "h", " ", "J", "a", "v", "a", "?">>
TextSpring ==
    <<"D", "e", "s", "c", "r", "i", "b", "e", " ", "y", "o", "u", "r", " ", "e", "x", "p", "e", "r", "i", "e", "n", "c", "e", " ", "w", "i", "t", "h", " ", "S", "p", "r", "i", "n", "g", " ", "B", "o", "o", "t", " ", "p", "r", "o", "j", "e", "c", "t", "s", "?">>
TextThose ==
    <<"T", "e", "l", "l", " ", "m", "e", " ", "a", "b", "o", "u", "t", " ", "t", "h", "o", "s", "e", " ", "S", "p", "r", "i", "n", "g", " ", "p", "r", "o", "j", "e", "c", "t", "s", "?">>
TextYears ==
    <<"I", " ", "h", "a", "v", "e", " ", "7", " ", "y", "e", "a", "r", "s", " ", "o", "f", " ", "J", "a", "v", "a", " ", "e", "x", "p", "e", "r", "i", "e", "n", "c", "e">>
TextLed ==
    <<"I", " ", "l", "e", "d", " ", "t", "h", "r", "e", "e", " ", "S", "p", "r", "i", "n", "g", " ", "B", "o", "o", "t", " ", "m", "i", "c", "r", "o", "s", "e", "r", "v", "i", "c", "e", "s">>
TextDeployed ==
    <<"W", "e", " ", "r", "a", "n", " ", "i", "t", " ", "o", "n", " ", "K", "u", "b", "e", "r", "n", "e", "t", "e", "s">>
SkillKubernetes ==
    <<"K", "u", "b", "e", "r", "n", "e", "t", "e", "s">>
SkillJava ==
    <<"J", "A", "V", "A">>
SkillSpringBoot ==
    <<"S", "p", "r", "i", "n", "g", " ", "B", "o", "o", "t">>

\* A timestamp of 0 stands for a turn without one.
QuestionPool ==
    { [text |-> TextJava,   timestamp |-> 0],
      [text |-> TextSpring, timestamp |-> 0],
      [text |-> TextThose,  timestamp |-> 30] }

\* hasKeySkills is FALSE for an answer whose keySkills is undefined.
AnswerPool ==
    { [text |-> TextYears,    timestamp |-> 0,  hasKeySkills |-> FALSE, keySkills |-> <<>>],
      [text |-> TextLed,      timestamp |-> 0,  hasKeySkills |-> TRUE,  keySkills |-> <<>>],
      [text |-> TextDeployed, timestamp |-> 20, hasKeySkills |-> TRUE,
       keySkills |-> <<SkillKubernetes>>],
      [text |-> TextYears,    timestamp |-> 0,  hasKeySkills |-> TRUE,
       keySkills |-> <<SkillJava, SkillSpringBoot>>] }

\* The most questions of one interview.
MaxQuestions == 3

FlowInit ==
    /\ FlowIdle
    /\ ScoreIdle
    /\ TrainingIdle
    /\ ConnectIdle
    /\ BranchIdle
    /\ AuthIdle
    /\ ExtractIdle
    /\ AggIdle
    /\ PipeIdle

\* The recruiter asks one more question (earlier ones may be left unanswered
\* when the conversation is cut short).
AskQuestion ==
    /\ flowPhase = "input"
    /\ Len(questions) < MaxQuestions
    /\ \E q \in QuestionPool : questions' = Append(questions, q)
    /\ UNCHANGED <<answers, flowPhase, graph, missedFollowUps, logicalScore, notFlow>>

\* The candidate answers the first question still unanswered.
GiveAnswer ==
    /\ flowPhase = "input"
    /\ Len(answers) < Len(questions)
    /\ \E a \in AnswerPool : answers' = Append(answers, a)
    /\ UNCHANGED <<questions, flowPhase, graph, missedFollowUps, logicalScore, notFlow>>

BuildFlowGraph ==
    /\ flowPhase = "input"
    /\ graph' = buildFlowGraph(questions, answers)
    /\ flowPhase' = "built"
    /\ UNCHANGED <<questions, answers, missedFollowUps, logicalScore, notFlow>>

DetectMissedFollowUps ==
    /\ flowPhase = "built"
    /\ missedFollowUps' = detectMissedFollowUps(questions, answers, graph.edges)
    /\ flowPhase' = "detected"
    /\ UNCHANGED <<questions, answers, graph, logicalScore, notFlow>>

CalculateLogicalScore ==
    /\ flowPhase = "detected"
    /\ logicalScore' = calculateLogicalScore(graph.edges)
    /\ flowPhase' = "scored"
    /\ UNCHANGED <<questions, answers, graph, missedFollowUps, notFlow>>

FlowNext ==
    \/ AskQuestion
    \/ GiveAnswer
    \/ BuildFlowGraph
    \/ DetectMissedFollowUps
    \/ CalculateLogicalScore

SpecFlow == FlowInit /\ [][FlowNext]_vars

-----------------------------------------------------------------------------
(* Properties of the flow analysis                                         *)

Built    == flowPhase \in {"built", "detected", "scored"}
Detected == flowPhase \in {"detected", "scored"}
Scored   == flowPhase = "scored"

\* The indices of the edges of the given set of kinds.
EdgesOfType(types) == {k \in DOMAIN graph.edges : graph.edges[k].type \in types}

ContinuityTypes == {"follow_up", "topic_shift", "disconnected"}

ContinuityStrengthsOk ==
    \A k \in EdgesOfType(ContinuityTypes) :
        \E x \in {Frac(2, 10), Frac(5, 10), Frac(8, 10)} : FEq(graph.edges[k].strength, x)

DirectEdgesOk ==
    /\ Cardinality(EdgesOfType({"direct_response"})) = Len(answers)
    /\ \A k \in EdgesOfType({"direct_response"}) : FEq(graph.edges[k].strength, Whole(1))

\* C5 as stated: N questions and M <= N answers give exactly M direct_response
\* edges of strength 1 and exactly N - 1 continuity edges, each of strength
\* 0.2, 0.5 or 0.8.
C5_EdgeCounts ==
    Built =>
        /\ DirectEdgesOk
        /\ Cardinality(EdgesOfType(ContinuityTypes)) = Len(questions) - 1
        /\ ContinuityStrengthsOk

\* C5 (amended): N >= 1 questions and M <= N answers give exactly M
\* direct_response edges of strength 1 and exactly N - 1 continuity edges, each
\* of strength 0.2, 0.5 or 0.8; no question gives no edge at all.
C5_EdgeCountsNonEmpty ==
    Built =>
        /\ DirectEdgesOk
        /\ ContinuityStrengthsOk
        /\ Len(graph.edges) = Cardinality(EdgesOfType(ContinuityTypes \cup {"direct_response"}))
        /\ IF Len(questions) >= 1
           THEN Cardinality(EdgesOfType(ContinuityTypes)) = Len(questions) - 1
           ELSE graph.edges = <<>>

\* C5 witness: three questions, two answers, and a graph with two edges of
\* each sort.
C5_Witness ==
    /\ Built
    /\ Len(questions) = 3
    /\ Len(answers) = 2
    /\ Cardinality(EdgesOfType({"direct_response"})) = 2
    /\ Cardinality(EdgesOfType(ContinuityTypes)) = 2

\* The records emitted for answer index i (0-based) with the given importance.
RecordsFor(i, importance) ==
    {k \in DOMAIN missedFollowUps :
        /\ missedFollowUps[k].afterNode = AId(i)
        /\ missedFollowUps[k].importance = importance}

\* The answer indices the detector looks at: all but the last.
ProbedIndices == 0..(Len(answers) - 2)

\* Answer i carries a tag and no tag of it occurs, whatever the case, in the
\* text of question i + 1.
TagRuleFires(i) ==
    /\ answers[i + 1].hasKeySkills
    /\ Len(answers[i + 1].keySkills) >= 1
    /\ \A k \in DOMAIN answers[i + 1].keySkills :
          ~StringIncludes(ToLowerCase(questions[i + 2].text),
                          ToLowerCase(answers[i + 1].keySkills[k]))

\* The continuity edge from answer i to question i + 1 is Disconnected.
DisconnectedRuleFires(i) ==
    \E k \in DOMAIN graph.edges :
        /\ graph.edges[k].from = AId(i)
        /\ graph.edges[k].to = QId(i + 1)
        /\ graph.edges[k].type = "disconnected"

\* C6 as stated: at most one record per answer index; when both rules fire at
\* one index only the high-importance record is emitted.
C6_AtMostOnePerIndex ==
    Detected =>
        \A i \in ProbedIndices :
            /\ Cardinality(RecordsFor(i, "high") \cup RecordsFor(i, "medium")
                           \cup RecordsFor(i, "low")) <= 1
            /\ (TagRuleFires(i) /\ DisconnectedRuleFires(i))
                   => RecordsFor(i, "medium") = {}

\* C6 (amended): at most one high and at most one medium record per answer
\* index, never a low one; when both rules fire at one index both records are
\* emitted, the high-importance one first.
C6_OneOfEachPerIndex ==
    Detected =>
        \A i \in ProbedIndices :
            /\ Cardinality(RecordsFor(i, "high")) <= 1
            /\ Cardinality(RecordsFor(i, "medium")) <= 1
            /\ RecordsFor(i, "low") = {}
            /\ (TagRuleFires(i) /\ DisconnectedRuleFires(i))
                   => \E h \in RecordsFor(i, "high") :
                          RecordsFor(i, "medium") = {h + 1}

\* C6 witness: both rules fired at index 0 and both records are there.
C6_Witness ==
    /\ Detected
    /\ Len(answers) >= 2
    /\ TagRuleFires(0)
    /\ DisconnectedRuleFires(0)
    /\ RecordsFor(0, "high") = {1}
    /\ RecordsFor(0, "medium") = {2}

\* C7: for every answer index but the last, when the answer carries a tag and
\* no tag occurs in the next question, exactly one high record references the
\* answer, and it asks to elaborate on the first tag.
C7_TagRuleGivesOneHigh ==
    Detected =>
        \A i \in ProbedIndices :
            TagRuleFires(i) =>
                /\ Cardinality(RecordsFor(i, "high")) = 1
                /\ \A k \in RecordsFor(i, "high") :
                      /\ missedFollowUps[k].afterNode = AId(i)
                      /\ missedFollowUps[k].suggestedQuestion.skill = answers[i + 1].keySkills[1]

\* C7 witness: the answer tagged JAVA and Spring Boot was followed by a
\* question naming neither, after a question that did name Java.
C7_Witness ==
    /\ Detected
    /\ Len(answers) >= 2
    /\ TagRuleFires(0)
    /\ Len(answers[1].keySkills) = 2
    /\ questions[1].text = TextJava
    /\ Cardinality(RecordsFor(0, "high")) = 1

\* The questions and answers of the end-to-end scenario.
IsScenario ==
    /\ Len(questions) = 2
    /\ questions[1].text = TextJava
    /\ questions[2].text = TextSpring
    /\ Len(answers) = 2
    /\ answers[1].text = TextYears
    /\ answers[2].text = TextLed

\* The continuity edge between the two questions of the scenario.
ScenarioEdge == graph.edges[FindEdge(graph.edges, AId(0), QId(1))]

\* C8 as stated: in the scenario the continuity edge is a follow-up of
\* strength 0.8 and the continuity score is 80.
C8_ScenarioFollowUp ==
    (Scored /\ IsScenario) =>
        /\ ScenarioEdge.type = "follow_up"
        /\ FEq(ScenarioEdge.strength, Frac(8, 10))
        /\ logicalScore = DblOfInt(80)

\* C8 (amended): in the scenario the two questions share one word longer than
\* 4 characters, so the continuity edge is a topic shift of strength 0.5, and
\* the score over the three edges of the graph is 83.33333333333334, the
\* double that (1 + 1 + 0.5) / 3 * 100 gives.
C8_ScenarioTopicShift ==
    (Scored /\ IsScenario) =>
        /\ ScenarioEdge.type = "topic_shift"
        /\ FEq(ScenarioEdge.strength, Frac(5, 10))
        /\ Len(graph.edges) = 3
        /\ DblLess(DblOfFraction(Frac(8333, 100)), logicalScore)
        /\ DblLess(logicalScore, DblOfFraction(Frac(8334, 100)))

\* C8 witness: the scenario has been built and scored.
C8_Witness ==
    /\ Scored
    /\ IsScenario
    /\ ScenarioEdge.type = "topic_shift"

\* C23: for every answer index but the last at which the tag rule does not
\* fire, one medium record is emitted for the index when the continuity edge
\* from that answer to the next question is disconnected, and no record of
\* any importance otherwise.
C23_MediumIffDisconnected ==
    Detected =>
        \A i \in ProbedIndices :
            ~TagRuleFires(i) =>
                /\ RecordsFor(i, "high") = {}
                /\ RecordsFor(i, "low") = {}
                /\ Cardinality(RecordsFor(i, "medium")) =
                       (IF DisconnectedRuleFires(i) THEN 1 ELSE 0)

\* C23 witness: the tag rule does not fire at index 0, the edge to the next
\* question is disconnected, and the one record is the medium one; at index 1
\* the edge is not disconnected and there is no record.
C23_Witness ==
    /\ Detected
    /\ Len(answers) = 3
    /\ ~TagRuleFires(0)
    /\ DisconnectedRuleFires(0)
    /\ ~TagRuleFires(1)
    /\ ~DisconnectedRuleFires(1)
    /\ Len(missedFollowUps) = 1
    /\ missedFollowUps[1].importance = "medium"
    /\ missedFollowUps[1].afterNode = AId(0)

\* The ids of the nodes of the graph.
NodeIds == { graph.nodes[k].id : k \in DOMAIN graph.nodes }

\* C27: every edge of the graph starts and ends at a node of the graph.
C27_NoDanglingEdge ==
    Built =>
        \A k \in DOMAIN graph.edges :
            /\ graph.edges[k].from \in NodeIds
            /\ graph.edges[k].to \in NodeIds

-----------------------------------------------------------------------------
(* identifyConversationBranches                                            *)

\* edges.find(e => e.to === id): the index of the first such edge, or 0.
FindIncoming(edges, id) ==
    IF \E k \in DOMAIN edges : edges[k].to = id
    THEN CHOOSE k \in DOMAIN edges :
            /\ edges[k].to = id
            /\ \A j \in 1..(k - 1) : edges[j].to # id
    ELSE 0

\* Whether the loop closes the current branch before it adds the node.
ClosesBranch_OnDisconnected(node, edges, currentBranch) ==
    /\ node.type = "question"
    /\ FindIncoming(edges, node.id) # 0
    /\ edges[FindIncoming(edges, node.id)].type = "disconnected"
    /\ Len(currentBranch) > 0

ClosesBranch(node, edges, currentBranch) ==
    /\ node.type = "question"
    /\ FindIncoming(edges, node.id) # 0
    /\ edges[FindIncoming(edges, node.id)].type = "topic_shift"
    /\ Len(currentBranch) > 0

\* The loop over the nodes from index i (1-based here), then the final push.
RECURSIVE BranchesFrom(_, _, _, _, _)
BranchesFrom(nodes, edges, i, done, currentBranch) ==
    IF i > Len(nodes)
    THEN (IF Len(currentBranch) > 0 THEN Append(done, currentBranch) ELSE done)
    ELSE IF ClosesBranch(nodes[i], edges, currentBranch)
    THEN BranchesFrom(nodes, edges, i + 1, Append(done, currentBranch), <<nodes[i].id>>)
    ELSE BranchesFrom(nodes, edges, i + 1, done, Append(currentBranch, nodes[i].id))

\* The branches without the last one.
identifyConversationBranches_DropsLast(nodes, edges) ==
    SubSeq(BranchesFrom(nodes, edges, 1, <<>>, <<>>), 1,
           Len(BranchesFrom(nodes, edges, 1, <<>>, <<>>)) - 1)

identifyConversationBranches(nodes, edges) == BranchesFrom(nodes, edges, 1, <<>>, <<>>)

-----------------------------------------------------------------------------
(* The branches of one interview's graph                                   *)

BranchInit ==
    /\ FlowIdle
    /\ BranchIdle
    /\ AuthIdle
    /\ ScoreIdle
    /\ TrainingIdle
    /\ ConnectIdle
    /\ ExtractIdle
    /\ AggIdle
    /\ PipeIdle

\* identifyConversationBranches(graph.nodes, graph.edges)
IdentifyBranches ==
    /\ flowPhase = "built"
    /\ ~branches.done
    /\ branches' = [done |-> TRUE,
                    value |-> identifyConversationBranches(graph.nodes, graph.edges)]
    /\ UNCHANGED notBranch

BranchNext ==
    \/ AskQuestion
    \/ GiveAnswer
    \/ BuildFlowGraph
    \/ IdentifyBranches

SpecBranch == BranchInit /\ [][BranchNext]_vars

-----------------------------------------------------------------------------
(* Properties of the branches                                              *)

Branched == branches.done

\* The question nodes reached over a topic-shift edge, by index in the node
\* list: the first node never is one.
ShiftPoints ==
    { k \in 2..Len(graph.nodes) :
        /\ graph.nodes[k].type = "question"
        /\ \E j \in DOMAIN graph.edges :
               /\ graph.edges[j].to = graph.nodes[k].id
               /\ graph.edges[j].type = "topic_shift" }

\* The node ids from index a to index b.
IdsBetween(a, b) == [k \in 1..(b - a + 1) |-> graph.nodes[a + k - 1].id]

\* The run of nodes from index a to the node before the next shift point, or
\* to the last node.
RunFrom(a) ==
    IdsBetween(a, IF \E k \in ShiftPoints : k > a
                  THEN (CHOOSE k \in ShiftPoints :
                            k > a /\ \A j \in ShiftPoints : j > a => k <= j) - 1
                  ELSE Len(graph.nodes))

\* C22: a branch starts at the first node and at every question node whose
\* incoming continuity edge is a topic shift, and nowhere else; each branch
\* runs up to the node before the next such question, and the last one up to
\* the last node.
C22_BranchesAreMaximalRuns ==
    Branched =>
        /\ Len(branches.value) =
               (IF graph.nodes = <<>> THEN 0 ELSE 1 + Cardinality(ShiftPoints))
        /\ \A a \in {k \in DOMAIN graph.nodes : k = 1} \cup ShiftPoints :
               \E b \in DOMAIN branches.value : branches.value[b] = RunFrom(a)

\* C22 witness: three questions with a topic shift between the first two and
\* a follow-up between the last two, the first one answered: two branches.
C22_Witness ==
    /\ Branched
    /\ Len(questions) = 3
    /\ Len(answers) = 1
    /\ ShiftPoints = {3}
    /\ branches.value = << <<QId(0), AId(0)>>, <<QId(1), QId(2)>> >>

RECURSIVE Flatten(_)
Flatten(seqs) == IF seqs = <<>> THEN <<>> ELSE Head(seqs) \o Flatten(Tail(seqs))

\* C28: no branch is empty, and the branches in order, put end to end, are
\* the node ids in their order, each once.
C28_BranchesPartitionNodes ==
    Branched =>
        /\ \A b \in DOMAIN branches.value : branches.value[b] # <<>>
        /\ Flatten(branches.value) = [k \in DOMAIN graph.nodes |-> graph.nodes[k].id]
        /\ \A j, k \in DOMAIN graph.nodes :
               graph.nodes[j].id = graph.nodes[k].id => j = k

\* C28 witness: two answered questions with a topic shift between them: two
\* branches of two nodes each.
C28_Witness ==
    /\ Branched
    /\ Len(graph.nodes) = 4
    /\ Len(branches.value) = 2
    /\ Len(branches.value[1]) = 2
    /\ Len(branches.value[2]) = 2

-----------------------------------------------------------------------------
(* calculateLogicalScore called with any list of edges                     *)

MaxEdges == 3

\* An edge of each type buildFlowGraph produces, with that type's strength.
EdgeOfType(type) ==
    [type |-> type,
     strength |-> IF type = "direct_response" THEN Whole(1)
                  ELSE IF type = "follow_up" THEN FollowUpStrength
                  ELSE IF type = "topic_shift" THEN TopicShiftStrength
                  ELSE DisconnectedStrength]

EdgeTypes == {"direct_response", "follow_up", "topic_shift", "disconnected"}

ScoreInit ==
    /\ ScoreIdle
    /\ ExtractIdle
    /\ AggIdle
    /\ FlowIdle
    /\ PipeIdle
    /\ TrainingIdle
    /\ ConnectIdle
    /\ BranchIdle
    /\ AuthIdle

\* The caller's list grows by one edge.
AddEdge ==
    /\ ~edgeScore.done
    /\ Len(edgeList) < MaxEdges
    /\ \E type \in EdgeTypes : edgeList' = Append(edgeList, EdgeOfType(type))
    /\ UNCHANGED <<edgeScore, notScore>>

\* calculateLogicalScore(edges)
ScoreEdges ==
    /\ ~edgeScore.done
    /\ edgeScore' = [done |-> TRUE, value |-> calculateLogicalScore(edgeList)]
    /\ UNCHANGED <<edgeList, notScore>>

ScoreNext == AddEdge \/ ScoreEdges

SpecScore == ScoreInit /\ [][ScoreNext]_vars

-----------------------------------------------------------------------------
(* Properties of the score                                                 *)

AllDisconnected ==
    /\ edgeList # <<>>
    /\ \A k \in DOMAIN edgeList : edgeList[k].type = "disconnected"

InScoreRange(x) == DblLeq(DblZero, x) /\ DblLeq(x, DblOfInt(100))

\* thousands + units / 1000, to within the rounding of the last place.
DblOfThousandths(thousands, units) ==
    DblDivInt(DblDivInt(DblDivInt(DblAdd(DblTimesInt(DblOfInt(thousands), 1000),
                                         DblOfInt(units)), 10), 10), 10)

\* C13 as stated: the score lies in [0, 100], is 0 for no edges, and is
\* exactly 20 for a list of disconnected edges only.
C13_DisconnectedIsExactly20 ==
    edgeScore.done =>
        /\ InScoreRange(edgeScore.value)
        /\ (edgeList = <<>> => edgeScore.value = DblZero)
        /\ (AllDisconnected => edgeScore.value = DblOfInt(20))

\* C13 (amended): the score lies in [0, 100], is 0 for no edges, and for a
\* list of disconnected edges only it is 20 up to the rounding of double
\* arithmetic: within 0.001 of 20, and exactly 20 for one edge or two.
C13_DisconnectedIsAbout20 ==
    edgeScore.done =>
        /\ InScoreRange(edgeScore.value)
        /\ (edgeList = <<>> => edgeScore.value = DblZero)
        /\ (AllDisconnected =>
                /\ DblLess(DblOfThousandths(19, 999), edgeScore.value)
                /\ DblLess(edgeScore.value, DblOfThousandths(20, 1))
                /\ (Len(edgeList) <= 2 => edgeScore.value = DblOfInt(20)))

\* C13 witness: three disconnected edges have been scored, and the score is
\* not 20.
C13_Witness ==
    /\ edgeScore.done
    /\ AllDisconnected
    /\ Len(edgeList) = 3
    /\ edgeScore.value # DblOfInt(20)

-----------------------------------------------------------------------------
(* analyzeQuestionConnection called with any two questions                 *)

WordExperience == <<"e", "x", "p", "e", "r", "i", "e", "n", "c", "e">>
WordSpring     == <<"S", "p", "r", "i", "n", "g">>
WordJava       == <<"J", "a", "v", "a">>

\* The words a question is made of.
Vocabulary == {WordExperience, WordSpring, WordJava}

\* The most words of one question.
MaxWords == 2

\* The number of words a text built here has.
RECURSIVE SpacesFrom(_, _)
SpacesFrom(s, i) ==
    IF i > Len(s) THEN 0
    ELSE (IF s[i] = " " THEN 1 ELSE 0) + SpacesFrom(s, i + 1)

WordsIn(s) == IF s = <<>> THEN 0 ELSE 1 + SpacesFrom(s, 1)

\* The text with one more word.
WithWord(s, w) == IF s = <<>> THEN w ELSE s \o <<" ">> \o w

ConnectInit ==
    /\ ConnectIdle
    /\ BranchIdle
    /\ AuthIdle
    /\ ExtractIdle
    /\ AggIdle
    /\ FlowIdle
    /\ ScoreIdle
    /\ TrainingIdle
    /\ PipeIdle

\* The earlier question gets one more word.
ExtendEarlier ==
    /\ ~connection.done
    /\ WordsIn(earlierText) < MaxWords
    /\ \E w \in Vocabulary : earlierText' = WithWord(earlierText, w)
    /\ UNCHANGED <<laterText, connection, notConnect>>

\* The later question gets one more word.
ExtendLater ==
    /\ ~connection.done
    /\ WordsIn(laterText) < MaxWords
    /\ \E w \in Vocabulary : laterText' = WithWord(laterText, w)
    /\ UNCHANGED <<earlierText, connection, notConnect>>

\* analyzeQuestionConnection(prevQ, nextQ)
AnalyzeConnection ==
    /\ ~connection.done
    /\ connection' = [done |-> TRUE,
                      value |-> analyzeQuestionConnection(earlierText, laterText)]
    /\ UNCHANGED <<earlierText, laterText, notConnect>>

ConnectNext == ExtendEarlier \/ ExtendLater \/ AnalyzeConnection

SpecConnect == ConnectInit /\ [][ConnectNext]_vars

-----------------------------------------------------------------------------
(* Properties of the connection between two questions                      *)

\* The set of the lower-cased words of a text.
TokensOf(s) ==
    { SplitWords(ToLowerCase(s))[k] : k \in DOMAIN SplitWords(ToLowerCase(s)) }

\* The distinct tokens longer than 4 characters the two questions share.
DistinctShared ==
    { w \in TokensOf(earlierText) : w \in TokensOf(laterText) /\ Len(w) > 4 }

\* C21: the connection is classified by the number of distinct shared tokens
\* longer than 4 characters: 2 or more a follow-up of strength 0.8, 1 a topic
\* shift of strength 0.5, none disconnected with strength 0.2.
C21_ByDistinctSharedTokens ==
    connection.done =>
        IF Cardinality(DistinctShared) >= 2
        THEN /\ connection.value.type = "follow_up"
             /\ FEq(connection.value.strength, Frac(8, 10))
        ELSE IF Cardinality(DistinctShared) = 1
        THEN /\ connection.value.type = "topic_shift"
             /\ FEq(connection.value.strength, Frac(5, 10))
        ELSE /\ connection.value.type = "disconnected"
             /\ FEq(connection.value.strength, Frac(2, 10))

-----------------------------------------------------------------------------
(* generateTrainingRecommendations                                         *)
(* The metrics are whole numbers, on which the subtractions are exact; the *)
(* mean is computed in double precision. Of a recommendation the area and  *)
(* the priority are kept.                                                  *)

\* x !== undefined
Supplied(x) == x # Undefined

\* x || 0
OrZero(x) == IF x = Undefined THEN 0 ELSE x[1]

\* The JD relevance block: gaps, recommendations and strengths.
jdGaps_BelowTarget(score) ==
    IF Supplied(score) /\ score[1] < 80
    THEN <<[metric |-> "JD Relevance", currentScore |-> score[1], targetScore |-> 80,
            gap |-> 80 - score[1],
            severity |-> IF score[1] < 40 THEN "critical" ELSE "moderate"]>>
    ELSE <<>>

jdGaps(score) ==
    IF Supplied(score) /\ score[1] < 60
    THEN <<[metric |-> "JD Relevance", currentScore |-> score[1], targetScore |-> 80,
            gap |-> 80 - score[1],
            severity |-> IF score[1] < 40 THEN "critical" ELSE "moderate"]>>
    ELSE <<>>

jdRecommendations(score) ==
    IF Supplied(score) /\ score[1] < 60
    THEN <<[area |-> "Job Description Alignment",
            priority |-> IF score[1] < 40 THEN "critical" ELSE "high"]>>
    ELSE <<>>

jdStrengths(score) ==
    IF Supplied(score) /\ ~(score[1] < 60) /\ score[1] >= 80
    THEN <<"Strong job description alignment">>
    ELSE <<>>

\* The flow continuity block.
flowGaps_Unguarded(score) ==
    IF OrZero(score) < 70
    THEN <<[metric |-> "Flow Continuity", currentScore |-> OrZero(score),
            targetScore |-> 85, gap |-> 85 - OrZero(score),
            severity |-> IF OrZero(score) < 50 THEN "critical" ELSE "moderate"]>>
    ELSE <<>>

flowGaps(score) ==
    IF Supplied(score) /\ score[1] < 70
    THEN <<[metric |-> "Flow Continuity", currentScore |-> score[1], targetScore |-> 85,
            gap |-> 85 - score[1],
            severity |-> IF score[1] < 50 THEN "critical" ELSE "moderate"]>>
    ELSE <<>>

flowRecommendations(score) ==
    IF Supplied(score) /\ score[1] < 70
    THEN <<[area |-> "Conversation Flow",
            priority |-> IF score[1] < 50 THEN "critical" ELSE "high"]>>
    ELSE <<>>

flowStrengths(score) ==
    IF Supplied(score) /\ ~(score[1] < 70) /\ score[1] >= 85
    THEN <<"Excellent conversation flow and continuity">>
    ELSE <<>>

\* The missed follow-ups block.
followUpRecommendations(missed) ==
    IF Supplied(missed) /\ missed[1] > 3
    THEN <<[area |-> "Follow-up Questions",
            priority |-> IF missed[1] > 5 THEN "high" ELSE "medium"]>>
    ELSE <<>>

\* The sentiment block: recruiterScore = overallScore * 10.
toneRecommendations(score) ==
    IF Supplied(score) /\ score[1] * 10 < 60
    THEN <<[area |-> "Interview Tone", priority |-> "medium"]>>
    ELSE <<>>

\* [jd || 0, flow || 0, (recruiter || 0) * 10].reduce((a, b) => a + b, 0) / 3
avgScore(jd, flow, recruiter) ==
    DblDivInt(DblAdd(DblAdd(DblAdd(DblZero, DblOfInt(OrZero(jd))),
                            DblOfInt(OrZero(flow))),
                     DblTimesInt(DblOfInt(OrZero(recruiter)), 10)),
              3)

overallRating_Above(avg) ==
    IF DblLess(DblOfInt(85), avg) THEN "excellent"
    ELSE IF DblLess(DblOfInt(70), avg) THEN "good"
    ELSE IF DblLess(DblOfInt(50), avg) THEN "needs_improvement"
    ELSE "poor"

overallRating(avg) ==
    IF DblLeq(DblOfInt(85), avg) THEN "excellent"
    ELSE IF DblLeq(DblOfInt(70), avg) THEN "good"
    ELSE IF DblLeq(DblOfInt(50), avg) THEN "needs_improvement"
    ELSE "poor"

generateTrainingRecommendations(jd, flow, recruiter, missed) ==
    [recommendations |-> jdRecommendations(jd) \o flowRecommendations(flow)
                         \o followUpRecommendations(missed) \o toneRecommendations(recruiter),
     performanceGaps |-> jdGaps(jd) \o flowGaps(flow),
     strengthAreas   |-> jdStrengths(jd) \o flowStrengths(flow),
     overallRating   |-> The({ overallRating(avg) : avg \in { avgScore(jd, flow, recruiter) } })]

-----------------------------------------------------------------------------
(* generateTrainingRecommendations called with any summary scores          *)

\* The scores a caller hands over: each side of every threshold of the code.
JdScores        == {0, 39, 40, 59, 60, 79, 80, 85, 100}
ContinuityScore == {0, 20, 49, 50, 69, 70, 84, 85, 90, 100}
RecruiterScores == {1, 5, 6, 8, 10}
MissedCounts    == {0, 3, 4, 5, 6}

TrainingInit ==
    /\ TrainingIdle
    /\ ConnectIdle
    /\ BranchIdle
    /\ AuthIdle
    /\ ExtractIdle
    /\ AggIdle
    /\ FlowIdle
    /\ PipeIdle
    /\ ScoreIdle

\* The caller has a JD relevance score.
SupplyJdScore ==
    /\ ~training.done
    /\ jdMetric = Undefined
    /\ \E n \in JdScores : jdMetric' = <<n>>
    /\ UNCHANGED <<flowMetric, recruiterMetric, missedGiven, training, notTraining>>

\* The caller has a flow continuity score.
SupplyContinuityScore ==
    /\ ~training.done
    /\ flowMetric = Undefined
    /\ \E n \in ContinuityScore : flowMetric' = <<n>>
    /\ UNCHANGED <<jdMetric, recruiterMetric, missedGiven, training, notTraining>>

\* The caller has a recruiter sentiment.
SupplyRecruiterSentiment ==
    /\ ~training.done
    /\ recruiterMetric = Undefined
    /\ \E n \in RecruiterScores : recruiterMetric' = <<n>>
    /\ UNCHANGED <<jdMetric, flowMetric, missedGiven, training, notTraining>>

\* The caller has the list of missed follow-ups.
SupplyMissedFollowUps ==
    /\ ~training.done
    /\ missedGiven = Undefined
    /\ \E n \in MissedCounts : missedGiven' = <<n>>
    /\ UNCHANGED <<jdMetric, flowMetric, recruiterMetric, training, notTraining>>

\* generateTrainingRecommendations(jdAnalysis, flowAnalysis, sentimentAnalysis, missedFollowUps)
GenerateTraining ==
    /\ ~training.done
    /\ training' = [done |-> TRUE,
                    value |-> generateTrainingRecommendations(jdMetric, flowMetric,
                                                              recruiterMetric, missedGiven)]
    /\ UNCHANGED <<jdMetric, flowMetric, recruiterMetric, missedGiven, notTraining>>

TrainingNext ==
    \/ SupplyJdScore
    \/ SupplyContinuityScore
    \/ SupplyRecruiterSentiment
    \/ SupplyMissedFollowUps
    \/ GenerateTraining

SpecTraining == TrainingInit /\ [][TrainingNext]_vars

-----------------------------------------------------------------------------
(* Properties of the training recommendations                              *)

Generated == training.done

\* Whether the returned list has a performance gap for the metric.
HasGap(metric) ==
    \E k \in DOMAIN training.value.performanceGaps :
        training.value.performanceGaps[k].metric = metric

GapMetrics ==
    { training.value.performanceGaps[k].metric :
        k \in DOMAIN training.value.performanceGaps }

\* Whether the metric was handed over and lies below the limit.
SuppliedBelow(x, limit) == x # <<>> /\ x[1] < limit

\* C14 as stated: a gap is listed for JD relevance exactly when it was
\* supplied and is below its target 80, for flow continuity exactly when it
\* was supplied and is below its target 85, and for no other metric.
C14_GapBelowTarget ==
    Generated =>
        /\ HasGap("JD Relevance") <=> SuppliedBelow(jdMetric, 80)
        /\ HasGap("Flow Continuity") <=> SuppliedBelow(flowMetric, 85)
        /\ GapMetrics \subseteq {"JD Relevance", "Flow Continuity"}

\* C14 (amended): a gap is listed for JD relevance exactly when it was
\* supplied and is below 60, for flow continuity exactly when it was supplied
\* and is below 70, and for no other metric; each gap reports the target (80,
\* 85) and the distance of the score from it.
C14_GapBelowThreshold ==
    Generated =>
        /\ HasGap("JD Relevance") <=> SuppliedBelow(jdMetric, 60)
        /\ HasGap("Flow Continuity") <=> SuppliedBelow(flowMetric, 70)
        /\ GapMetrics \subseteq {"JD Relevance", "Flow Continuity"}
        /\ \A k \in DOMAIN training.value.performanceGaps :
               \E g \in { training.value.performanceGaps[k] } :
                   /\ g.targetScore = (IF g.metric = "JD Relevance" THEN 80 ELSE 85)
                   /\ g.currentScore =
                          (IF g.metric = "JD Relevance" THEN jdMetric[1] ELSE flowMetric[1])
                   /\ g.gap = g.targetScore - g.currentScore

\* C14 witness: a JD relevance of 79, below the target and not below the
\* threshold, was supplied and no gap is listed for it, while a flow
\* continuity of 69 has its gap.
C14_Witness ==
    /\ Generated
    /\ jdMetric = <<79>>
    /\ flowMetric = <<69>>
    /\ ~HasGap("JD Relevance")
    /\ HasGap("Flow Continuity")

\* Three times the mean of the three scores on the 0-100 scale, a missing
\* score counting as 0.
ScoreTotal ==
    (IF jdMetric = <<>> THEN 0 ELSE jdMetric[1])
    + (IF flowMetric = <<>> THEN 0 ELSE flowMetric[1])
    + (IF recruiterMetric = <<>> THEN 0 ELSE 10 * recruiterMetric[1])

\* C15: the overall rating is the bucket of the mean of the JD relevance, the
\* flow continuity and ten times the recruiter's overall score: at least 85
\* excellent, at least 70 good, at least 50 needs_improvement, else poor.
C15_RatingBuckets ==
    Generated =>
        training.value.overallRating =
            (IF ScoreTotal >= 3 * 85 THEN "excellent"
             ELSE IF ScoreTotal >= 3 * 70 THEN "good"
             ELSE IF ScoreTotal >= 3 * 50 THEN "needs_improvement"
             ELSE "poor")

\* C15 witness: the three scores 85, 90 and 8 have the mean 85 exactly, and
\* the rating is excellent.
C15_Witness ==
    /\ Generated
    /\ jdMetric = <<85>>
    /\ flowMetric = <<90>>
    /\ recruiterMetric = <<8>>
    /\ training.value.overallRating = "excellent"

\* C16: a metric that was not supplied has no gap, critical or other, and
\* counts as 0 in the mean behind the rating; every gap listed is for a
\* metric the caller supplied.
C16_UndefinedCountsAsZero ==
    Generated =>
        /\ jdMetric = <<>> => ~HasGap("JD Relevance")
        /\ flowMetric = <<>> => ~HasGap("Flow Continuity")
        /\ \A k \in DOMAIN training.value.performanceGaps :
               \/ /\ training.value.performanceGaps[k].metric = "JD Relevance"
                  /\ jdMetric # <<>>
               \/ /\ training.value.performanceGaps[k].metric = "Flow Continuity"
                  /\ flowMetric # <<>>
        /\ (<<>> \in {jdMetric, flowMetric, recruiterMetric}) =>
               /\ training.value.overallRating = "excellent" => ScoreTotal >= 255
               /\ training.value.overallRating = "good" => ScoreTotal \in 210..254
               /\ training.value.overallRating = "needs_improvement" =>
                      ScoreTotal \in 150..209
               /\ training.value.overallRating = "poor" => ScoreTotal < 150

\* C16 witness: no flow continuity was supplied; with a JD relevance of 100
\* and a recruiter score of 10 the mean is 200 / 3, the rating is
\* needs_improvement and no gap is listed.
C16_Witness ==
    /\ Generated
    /\ flowMetric = <<>>
    /\ jdMetric = <<100>>
    /\ recruiterMetric = <<10>>
    /\ training.value.performanceGaps = <<>>
    /\ training.value.overallRating = "needs_improvement"

-----------------------------------------------------------------------------
(* The callers of extractValidJson, as processInterview sees them          *)

\* What one model call hands back: the request fails, or a text arrives.
Responded(t) == [failed |-> FALSE, text |-> t]
RequestFailed == [failed |-> TRUE, text |-> <<>>]

\* How a stage call ends.
StageParsed      == [threw |-> FALSE, cause |-> "none", source |-> "parsed"]
StageFallback(c) == [threw |-> FALSE, cause |-> c,      source |-> "fallback"]
StageThrew(c)    == [threw |-> TRUE,  cause |-> c,      source |-> "none"]

\* try { cleanJson = extractValidJson(rawJson); JSON.parse(cleanJson) }
CallerParses(rawJson) ==
    \E cleanJson \in { extractValidJson(rawJson) } :
        cleanJson.ok /\ JsonParses(cleanJson.value)

\* Why a call cannot reach its parse: the request failed or the text is empty.
Unanswered(response) ==
    IF response.failed THEN "api"
    ELSE IF response.text = <<>> THEN "empty"
    ELSE "none"

\* transcribeAudio: a response that does not parse, or parses to something
\* without usable segments, is rethrown.
transcribeAudio(response, wellFormed) ==
    IF Unanswered(response) # "none" THEN StageThrew(Unanswered(response))
    ELSE IF ~CallerParses(response.text) THEN StageThrew("extraction")
    ELSE IF ~wellFormed THEN StageThrew("structure")
    ELSE StageParsed

\* The classification analyzeContentType substitutes for an unparsable response.
ClassificationFallback(speakers) ==
    [contentType |-> "other", speakerCount |-> speakers, isJobRelated |-> FALSE]

\* analyzeContentType: the call and the classification it returns.
analyzeContentType(response, said, speakers) ==
    IF Unanswered(response) # "none"
    THEN [call |-> StageThrew(Unanswered(response)), value |-> NoContentAnalysis]
    ELSE IF CallerParses(response.text)
    THEN [call |-> StageParsed, value |-> said]
    ELSE [call |-> StageFallback("extraction"), value |-> ClassificationFallback(speakers)]

\* analyzeSentiment on a two-speaker interview: every failure below it is caught
\* and replaced by the balanced fallback judgment.
analyzeSentiment(response) ==
    IF Unanswered(response) # "none" THEN StageFallback(Unanswered(response))
    ELSE IF CallerParses(response.text) THEN StageParsed
    ELSE StageFallback("extraction")

\* analyzeJDRelevance with the parse failure rethrown instead of replaced.
analyzeJDRelevance_Rethrows(response) ==
    IF Unanswered(response) # "none" THEN StageThrew(Unanswered(response))
    ELSE IF CallerParses(response.text) THEN StageParsed
    ELSE StageThrew("extraction")

\* analyzeJDRelevance: a parse failure yields the zero-score fallback, any other
\* failure is rethrown.
analyzeJDRelevance(response) ==
    IF Unanswered(response) # "none" THEN StageThrew(Unanswered(response))
    ELSE IF CallerParses(response.text) THEN StageParsed
    ELSE StageFallback("extraction")

\* analyzeFlow on an interview: as analyzeJDRelevance.
analyzeFlow(response) ==
    IF Unanswered(response) # "none" THEN StageThrew(Unanswered(response))
    ELSE IF CallerParses(response.text) THEN StageParsed
    ELSE StageFallback("extraction")

RECURSIVE LastIndexOfFrom(_, _, _)
LastIndexOfFrom(s, c, i) ==
    IF i < 1 THEN 0
    ELSE IF s[i] = c THEN i
    ELSE LastIndexOfFrom(s, c, i - 1)

\* text.match(/\{[\s\S]*\}/): the greedy span from the first opening brace to
\* the last closing brace; <<>> stands for no match.
BraceSpan(t) ==
    LET a == IndexOf(t, "{")
        b == LastIndexOfFrom(t, "}", Len(t))
    IN  IF a = 0 \/ b < a THEN <<>> ELSE SubSeq(t, a, b)

\* analyzeResumeTranscriptAlignment: it does not go through extractValidJson;
\* every failure is rethrown.
analyzeResumeTranscriptAlignment(response) ==
    IF response.failed THEN StageThrew("api")
    ELSE IF \E jsonMatch \in { BraceSpan(response.text) } :
                jsonMatch # <<>> /\ JsonParses(jsonMatch)
    THEN StageParsed
    ELSE StageThrew("extraction")

-----------------------------------------------------------------------------
(* processInterview                                                        *)

Stages == {"transcription", "classification", "sentiment", "jd", "flow", "resume"}

\* The steps array as constructed.
StepNames(withResume) ==
    <<"Audio Processing", "Content Classification", "Sentiment Analysis",
      "JD Relevance Analysis", "Flow Analysis">>
    \o (IF withResume THEN <<"Resume Analysis">> ELSE <<>>)
    \o <<"Report Generation">>

InitialSteps(withResume) ==
    [i \in 1..Len(StepNames(withResume)) |->
        [name |-> StepNames(withResume)[i], status |-> "pending"]]

\* steps.findIndex(...) counted from 1; 0 stands for -1.
FindStepNamed(ss, n) ==
    IF \E i \in 1..Len(ss) : ss[i].name = n
    THEN CHOOSE i \in 1..Len(ss) :
             ss[i].name = n /\ \A j \in 1..(i - 1) : ss[j].name # n
    ELSE 0

FindStepWithStatus(ss, st) ==
    IF \E i \in 1..Len(ss) : ss[i].status = st
    THEN CHOOSE i \in 1..Len(ss) :
             ss[i].status = st /\ \A j \in 1..(i - 1) : ss[j].status # st
    ELSE 0

\* The status is written to the step and to every step before it.
SetStatus_Through(ss, i, st) ==
    [j \in 1..Len(ss) |-> IF j <= i THEN [ss[j] EXCEPT !.status = st] ELSE ss[j]]

SetStatus(ss, i, st) == [ss EXCEPT ![i].status = st]

\* storage.updateInterview(interviewId, {processingSteps, <field>...})
UpdateSteps(doc, ss, saved) ==
    [doc EXCEPT !.processingSteps = ss, !.fields = @ \cup saved]

\* storage.updateInterview(interviewId, {processingStatus, processingSteps})
UpdateStatus(doc, status, ss) ==
    [doc EXCEPT !.processingStatus = status, !.processingSteps = ss]

\* The texts a model call may answer with.
GoodResponse ==
    <<" ", "a", ":", " ">>
    \o <<"BACKTICK", "BACKTICK", "BACKTICK", "j", "s", "o", "n", "\n">>
    \o LitNested \o FenceClosing
ProseResponse     == TextProse
TruncatedResponse == SubSeq(LitNested, 1, Len(LitNested) - 1)
EmptyResponse     == <<>>

Responses ==
    { RequestFailed }
    \cup { Responded(t) : t \in { GoodResponse, ProseResponse,
                                  TruncatedResponse, EmptyResponse } }

\* The classifications a parsed response may carry.
Classifications ==
    [contentType : {"interview", "monologue"}, speakerCount : {1, 2},
     isJobRelated : BOOLEAN]

\* The most speakers a transcription may find.
MaxSpeakers == 2

\* What storage may answer to a call: it stores, or it rejects the call.
StorageAnswers == IF storage.mayFail THEN BOOLEAN ELSE {TRUE}

\* await storage.updateInterview(interviewId, doc) inside the try block: the
\* document is stored and the run goes on, or the promise is rejected and the
\* run continues in the catch block.
updateInterview(accepted, doc, next) ==
    IF accepted
    THEN /\ stored' = doc
         /\ pc' = next
         /\ UNCHANGED storage
    ELSE /\ UNCHANGED stored
         /\ pc' = "catch"
         /\ storage' = [storage EXCEPT !.failed = @ \cup {pc}]

\* The state of a run after the interview was read and the steps were built.
PipeStart ==
    /\ pc = "start"
    /\ hasResume \in BOOLEAN
    /\ steps = InitialSteps(hasResume)
    /\ stored = [processingStatus |-> "pending", processingSteps |-> <<>>, fields |-> {}]
    /\ uniqueSpeakers = 0
    /\ contentAnalysis = NoContentAnalysis
    /\ stage = [s \in Stages |-> NotCalled]
    /\ reports = 0
    /\ outcome = "running"
    /\ ExtractIdle
    /\ AggIdle
    /\ FlowIdle
    /\ ScoreIdle
    /\ TrainingIdle
    /\ ConnectIdle
    /\ BranchIdle
    /\ AuthIdle

\* A run against a storage that accepts every call.
PipeInit ==
    /\ PipeStart
    /\ storage = NoStorage

\* A run against a storage that may reject any call.
StorageInit ==
    /\ PipeStart
    /\ storage = [mayFail |-> TRUE, failed |-> {}]

\* The first update: the run is marked as processing.
BeginProcessing ==
    /\ pc = "start"
    /\ \E accepted \in StorageAnswers :
          updateInterview(accepted, UpdateStatus(stored, "processing", steps), "audioStart")
    /\ UNCHANGED <<hasResume, steps, uniqueSpeakers, contentAnalysis, stage,
                   reports, outcome, notPipe>>

\* Step 1 is announced.
StartAudio ==
    /\ pc = "audioStart"
    /\ steps' = SetStatus(steps, 1, "processing")
    /\ \E accepted \in StorageAnswers :
          updateInterview(accepted, UpdateSteps(stored, steps', {}), "transcribe")
    /\ UNCHANGED <<hasResume, uniqueSpeakers, contentAnalysis, stage, reports,
                   outcome, notPipe>>

\* transcribeAudio returns or throws; on return the transcription is stored.
Transcribe ==
    /\ pc = "transcribe"
    /\ \E response \in Responses, wellFormed \in BOOLEAN, speakers \in 1..MaxSpeakers :
          \E call \in { transcribeAudio(response, wellFormed) } :
              /\ stage' = [stage EXCEPT !["transcription"] = call]
              /\ IF call.threw
                 THEN /\ pc' = "catch"
                      /\ UNCHANGED <<steps, stored, storage, uniqueSpeakers>>
                 ELSE /\ steps' = SetStatus(SetStatus(steps, 1, "complete"), 2, "processing")
                      /\ uniqueSpeakers' = speakers
                      /\ \E accepted \in StorageAnswers :
                            updateInterview(accepted,
                                UpdateSteps(stored, steps', {"transcription"}),
                                "classifyStart")
    /\ UNCHANGED <<hasResume, contentAnalysis, reports, outcome, notPipe>>

\* Step 2 is announced.
StartClassification ==
    /\ pc = "classifyStart"
    /\ steps' = SetStatus(steps, 2, "processing")
    /\ \E accepted \in StorageAnswers :
          updateInterview(accepted, UpdateSteps(stored, steps', {}), "classify")
    /\ UNCHANGED <<hasResume, uniqueSpeakers, contentAnalysis, stage, reports,
                   outcome, notPipe>>

\* The pre-analysis validation lets every classification pass.
Suitable_Always(analysis) == TRUE

\* The pre-analysis validation of the classification.
Suitable(analysis) ==
    /\ analysis.speakerCount >= 2
    /\ analysis.contentType = "interview"
    /\ analysis.isJobRelated

\* analyzeContentType returns or throws; the classification is validated. A
\* classification that is rejected is stored as an error before the throw.
ClassifyContent ==
    /\ pc = "classify"
    /\ \E response \in Responses, said \in Classifications :
          \E r \in { analyzeContentType(response, said, uniqueSpeakers) } :
              /\ stage' = [stage EXCEPT !["classification"] = r.call]
              /\ contentAnalysis' = r.value
              /\ IF r.call.threw
                 THEN /\ pc' = "catch"
                      /\ UNCHANGED <<steps, stored, storage>>
                 ELSE IF ~Suitable(r.value)
                 THEN /\ steps' = SetStatus(steps, 2, "error")
                      /\ \E accepted \in StorageAnswers :
                            updateInterview(accepted,
                                UpdateStatus(stored, "error", steps'), "catch")
                 ELSE /\ steps' = SetStatus(SetStatus(steps, 2, "complete"), 3, "processing")
                      /\ \E accepted \in StorageAnswers :
                            updateInterview(accepted, UpdateSteps(stored, steps', {}),
                                "sentiment")
    /\ UNCHANGED <<hasResume, uniqueSpeakers, reports, outcome, notPipe>>

\* analyzeSentiment returns; its result is stored.
Sentiment ==
    /\ pc = "sentiment"
    /\ \E response \in Responses :
          stage' = [stage EXCEPT !["sentiment"] = analyzeSentiment(response)]
    /\ steps' = SetStatus(SetStatus(steps, 3, "complete"), 4, "processing")
    /\ \E accepted \in StorageAnswers :
          updateInterview(accepted, UpdateSteps(stored, steps', {"sentimentAnalysis"}), "jd")
    /\ UNCHANGED <<hasResume, uniqueSpeakers, contentAnalysis, reports, outcome,
                   notPipe>>

\* analyzeJDRelevance returns or throws; on return its result is stored.
JDRelevance ==
    /\ pc = "jd"
    /\ \E response \in Responses :
          \E call \in { analyzeJDRelevance(response) } :
              /\ stage' = [stage EXCEPT !["jd"] = call]
              /\ IF call.threw
                 THEN /\ pc' = "catch"
                      /\ UNCHANGED <<steps, stored, storage>>
                 ELSE /\ steps' = SetStatus(SetStatus(steps, 4, "complete"), 5, "processing")
                      /\ \E accepted \in StorageAnswers :
                            updateInterview(accepted,
                                UpdateSteps(stored, steps', {"jdAnalysis"}), "flow")
    /\ UNCHANGED <<hasResume, uniqueSpeakers, contentAnalysis, reports, outcome,
                   notPipe>>

\* analyzeFlow returns or throws; on return its result is stored. No step is
\* in progress at this update.
Flow ==
    /\ pc = "flow"
    /\ \E response \in Responses :
          \E call \in { analyzeFlow(response) } :
              /\ stage' = [stage EXCEPT !["flow"] = call]
              /\ IF call.threw
                 THEN /\ pc' = "catch"
                      /\ UNCHANGED <<steps, stored, storage>>
                 ELSE /\ steps' = SetStatus(steps, 5, "complete")
                      /\ \E accepted \in StorageAnswers :
                            updateInterview(accepted,
                                UpdateSteps(stored, steps', {"flowAnalysis"}),
                                IF hasResume /\ FindStepNamed(steps, "Resume Analysis") > 0
                                THEN "resumeStart" ELSE "reportStart")
    /\ UNCHANGED <<hasResume, uniqueSpeakers, contentAnalysis, reports, outcome,
                   notPipe>>

\* The optional resume step is announced.
StartResume ==
    /\ pc = "resumeStart"
    /\ steps' = SetStatus(steps, FindStepNamed(steps, "Resume Analysis"), "processing")
    /\ \E accepted \in StorageAnswers :
          updateInterview(accepted, UpdateSteps(stored, steps', {}), "resume")
    /\ UNCHANGED <<hasResume, uniqueSpeakers, contentAnalysis, stage, reports,
                   outcome, notPipe>>

\* analyzeResumeTranscriptAlignment returns or throws; on return its result is
\* stored. No step is in progress at this update.
Resume ==
    /\ pc = "resume"
    /\ \E response \in Responses :
          \E call \in { analyzeResumeTranscriptAlignment(response) } :
              /\ stage' = [stage EXCEPT !["resume"] = call]
              /\ IF call.threw
                 THEN /\ pc' = "catch"
                      /\ UNCHANGED <<steps, stored, storage>>
                 ELSE /\ steps' = SetStatus(steps, FindStepNamed(steps, "Resume Analysis"),
                                            "complete")
                      /\ \E accepted \in StorageAnswers :
                            updateInterview(accepted,
                                UpdateSteps(stored, steps',
                                    {"resumeAnalysis", "candidateReport", "recruiterReport"}),
                                "reportStart")
    /\ UNCHANGED <<hasResume, uniqueSpeakers, contentAnalysis, reports, outcome,
                   notPipe>>

\* The report step is announced.
StartReport ==
    /\ pc = "reportStart"
    /\ steps' = SetStatus(steps, FindStepNamed(steps, "Report Generation"), "processing")
    /\ \E accepted \in StorageAnswers :
          updateInterview(accepted, UpdateSteps(stored, steps', {}), "report")
    /\ UNCHANGED <<hasResume, uniqueSpeakers, contentAnalysis, stage, reports,
                   outcome, notPipe>>

\* The report is generated and created in storage; the step is complete once
\* storage.createAnalysisReport has resolved.
CreateReport ==
    /\ pc = "report"
    /\ \E accepted \in StorageAnswers :
          IF accepted
          THEN /\ reports' = reports + 1
               /\ steps' = SetStatus(steps, FindStepNamed(steps, "Report Generation"),
                                     "complete")
               /\ pc' = "finish"
               /\ UNCHANGED storage
          ELSE /\ pc' = "catch"
               /\ storage' = [storage EXCEPT !.failed = @ \cup {pc}]
               /\ UNCHANGED <<reports, steps>>
    /\ UNCHANGED <<hasResume, stored, uniqueSpeakers, contentAnalysis, stage,
                   outcome, notPipe>>

\* The last update: the run is marked complete and processInterview returns.
\* No step is in progress at this update.
Finish ==
    /\ pc = "finish"
    /\ \E accepted \in StorageAnswers :
          /\ updateInterview(accepted, UpdateStatus(stored, "complete", steps), "done")
          /\ outcome' = IF accepted THEN "returned" ELSE outcome
    /\ UNCHANGED <<hasResume, steps, uniqueSpeakers, contentAnalysis, stage,
                   reports, notPipe>>

\* The catch block leaves the steps as they are.
MarkCurrentStep_Never(ss) == ss

\* const currentStep = steps.findIndex(s => s.status === "processing");
\* if (currentStep >= 0) steps[currentStep].status = "error"
MarkCurrentStep(ss) ==
    LET currentStep == FindStepWithStatus(ss, "processing")
    IN  IF currentStep > 0 THEN SetStatus(ss, currentStep, "error") ELSE ss

\* The catch block: the step in progress is marked, the run is marked as
\* failed, and the error is rethrown. The update is awaited inside the catch
\* block: when it is rejected, its error leaves processInterview instead.
Catch ==
    /\ pc = "catch"
    /\ steps' = MarkCurrentStep(steps)
    /\ \E accepted \in StorageAnswers :
          IF accepted
          THEN /\ stored' = UpdateStatus(stored, "error", steps')
               /\ UNCHANGED storage
          ELSE /\ UNCHANGED stored
               /\ storage' = [storage EXCEPT !.failed = @ \cup {pc}]
    /\ outcome' = "thrown"
    /\ pc' = "done"
    /\ UNCHANGED <<hasResume, uniqueSpeakers, contentAnalysis, stage, reports,
                   notPipe>>

PipeNext ==
    \/ BeginProcessing \/ StartAudio \/ Transcribe
    \/ StartClassification \/ ClassifyContent
    \/ Sentiment \/ JDRelevance \/ Flow
    \/ StartResume \/ Resume
    \/ StartReport \/ CreateReport \/ Finish
    \/ Catch

SpecPipe == PipeInit /\ [][PipeNext]_vars

\* The same run against a storage that may reject any call.
SpecStorage == StorageInit /\ [][PipeNext]_vars

-----------------------------------------------------------------------------
(* Properties of the pipeline                                              *)

Finished == pc = "done"

\* The extraction or the parse of a stage's response failed.
ExtractionFailedIn(s) == stage[s].cause = "extraction"

\* The stage call returned a fallback value instead of throwing.
RecoveredLocally(s) == ~stage[s].threw /\ stage[s].source = "fallback"

\* Nothing went wrong in the run but extractions: every request was answered
\* with a text of usable structure, and a classification that was parsed
\* describes a two-speaker job interview.
OnlyExtractionFaults ==
    /\ \A s \in Stages : stage[s].cause \in {"none", "extraction"}
    /\ stage["classification"].source = "parsed" => Suitable(contentAnalysis)

LocallyRecovering == {"sentiment", "jd", "flow"}

RejectedClassification ==
    /\ stage["classification"].source # "none"
    /\ ~stage["classification"].threw
    /\ \/ contentAnalysis.speakerCount < 2
       \/ contentAnalysis.contentType # "interview"
       \/ ~contentAnalysis.isJobRelated

StageOrder ==
    <<"Audio Processing", "Content Classification", "Sentiment Analysis",
      "JD Relevance Analysis", "Flow Analysis", "Resume Analysis", "Report Generation">>

\* The step names are the stage order, with or without the optional stage.
InStageOrder(ss) ==
    \/ [i \in 1..Len(ss) |-> ss[i].name] = StageOrder
    \/ [i \in 1..Len(ss) |-> ss[i].name] = SubSeq(StageOrder, 1, 5) \o SubSeq(StageOrder, 7, 7)

\* Complete steps, then at most one step that is processing or failed, then
\* pending steps only.
ProgressShaped(ss) ==
    \E k \in 0..Len(ss) :
        /\ \A i \in 1..k : ss[i].status = "complete"
        /\ k < Len(ss) => ss[k + 1].status \in {"processing", "error", "pending"}
        /\ \A i \in (k + 2)..Len(ss) : ss[i].status = "pending"

\* No stored step leaves the status complete in this step of the run.
NoStepBack ==
    \A i \in 1..Len(stored.processingSteps) :
        stored.processingSteps[i].status = "complete"
            => /\ i <= Len(stored'.processingSteps)
               /\ stored'.processingSteps[i].status = "complete"

\* C25: the step list of every storage update, whether storage accepts it or
\* not, names the stages in their fixed order and consists of complete steps,
\* then at most one step that is processing or in error, then pending steps;
\* and no stored step ever moves back from complete.
C25_StepsProgressInOrder ==
    /\ [](/\ InStageOrder(steps) /\ ProgressShaped(steps)
          /\ stored.processingSteps # <<>>
               => /\ InStageOrder(stored.processingSteps)
                  /\ ProgressShaped(stored.processingSteps))
    /\ [][NoStepBack]_vars

\* A stored step list with complete steps, then a failed step, then pending
\* steps.
C25_Witness ==
    \E i \in 2..(Len(stored.processingSteps) - 1) :
        /\ stored.processingSteps[i - 1].status = "complete"
        /\ stored.processingSteps[i].status = "error"
        /\ stored.processingSteps[i + 1].status = "pending"

\* A stage call threw or storage rejected a call of the run.
SomethingFailed ==
    \/ storage.failed # {}
    \/ \E s \in Stages : stage[s].threw

SomeStepInError(ss) == \E i \in 1..Len(ss) : ss[i].status = "error"

\* 'complete' is stored only with every step complete and the report created.
CompleteMeansDone ==
    stored.processingStatus = "complete"
        => /\ \A i \in 1..Len(stored.processingSteps) :
                 stored.processingSteps[i].status = "complete"
           /\ reports = 1

\* C26: a run in which a stage or a storage update failed ends with the
\* interview stored as error, with some step marked error and with the error
\* rethrown; complete is stored only when every step is complete and the
\* report has been created.
C26_FailureEndsInError ==
    /\ (Finished /\ SomethingFailed)
           => /\ stored.processingStatus = "error"
              /\ SomeStepInError(stored.processingSteps)
              /\ outcome = "thrown"
    /\ CompleteMeansDone

\* The awaits at which no step is in progress: the first update, the updates
\* that store the flow and the resume analysis, and the last update.
NoStepInProgress == {"start", "flow", "resume", "finish"}

\* C26 (amended): a run in which a stage or a storage update failed ends with
\* an error thrown and never with complete stored; the interview is stored as
\* error unless storage rejects the update of the catch block as well; given
\* that update, a step is marked error exactly when the failure did not happen
\* at one of the four updates during which no step is in progress; complete is
\* stored only when every step is complete and the report has been created.
C26_FailureIsRethrown ==
    /\ (Finished /\ SomethingFailed)
           => /\ outcome = "thrown"
              /\ stored.processingStatus # "complete"
              /\ "catch" \notin storage.failed
                    => /\ stored.processingStatus = "error"
                       /\ SomeStepInError(stored.processingSteps)
                             <=> storage.failed \cap NoStepInProgress = {}
    /\ CompleteMeansDone

\* A run whose last update was rejected: the interview is stored as error
\* with every step complete and the report created.
C26_Witness ==
    /\ Finished
    /\ storage.failed = {"finish"}
    /\ outcome = "thrown"
    /\ stored.processingStatus = "error"
    /\ ~SomeStepInError(stored.processingSteps)
    /\ reports = 1

-----------------------------------------------------------------------------
(* Authentication routes                                                   *)

\* An email address is its local part and its domain, in lower case.
ALLOWED_DOMAINS == {"@esolglobal.com", "@esol.com", "@otomashen.com"}

validateEmailDomain(email) == email.domain \in ALLOWED_DOMAINS

JWT_SECRET == "your-secret-key-change-in-production"

DEFAULT_PASSWORD == <<"e", "s", "o", "l", "1", "2", "3">>

\* jwt.sign(payload, secret, {expiresIn}): the payload of a reset token has
\* type 'reset', that of a session token has no type.
Sign(userId, type, secret) ==
    [userId |-> userId, type |-> type, secret |-> secret, expired |-> FALSE]

generateToken(userId) == Sign(userId, "undefined", JWT_SECRET)

\* jwt.verify(token, JWT_SECRET) does not throw.
Verifies(token) == token.secret = JWT_SECRET /\ ~token.expired

Answer(route, status, message) ==
    [route |-> route, status |-> status, message |-> message]

\* requireAuth: <<>> stands for a request without a token.
requireAuth(presented, users) ==
    IF presented = <<>> THEN Answer("requireAuth", 401, "Not authenticated")
    ELSE IF ~Verifies(presented[1])
    THEN Answer("requireAuth", 401, "Invalid or expired token")
    ELSE IF presented[1].userId \notin DOMAIN users
    THEN Answer("requireAuth", 401, "User not found")
    ELSE Answer("requireAuth", 0, "next")

\* POST /api/auth/forgot-password: the response, and the reset token when one
\* was mailed. The mail is sent only for an account that exists; when sending
\* it is rejected, the catch block answers.
forgotPassword(email, users, mailed) ==
    IF ~validateEmailDomain(email)
    THEN [reply |-> Answer("forgot-password", 403, "Unauthorized email domain"),
          token |-> <<>>]
    ELSE IF email \notin DOMAIN users
    THEN [reply |-> Answer("forgot-password", 200,
                      "If an account exists with this email, a password reset link has been sent."),
          token |-> <<>>]
    ELSE IF ~mailed
    THEN [reply |-> Answer("forgot-password", 400, "error.message"),
          token |-> <<>>]
    ELSE [reply |-> Answer("forgot-password", 200,
                      "If an account exists with this email, a password reset link has been sent."),
          token |-> <<Sign(email, "reset", JWT_SECRET)>>]

\* POST /api/auth/reset-password: the response; status 200 means the password
\* of decoded.userId was replaced.
resetPassword(presented, password, users) ==
    IF presented = <<>> \/ password = <<>>
    THEN Answer("reset-password", 400, "Missing required fields")
    ELSE IF ~Verifies(presented[1])
    THEN Answer("reset-password", 401, "Invalid or expired token")
    ELSE IF presented[1].type # "reset"
    THEN Answer("reset-password", 401, "Invalid token type")
    ELSE IF Len(password) < 8
    THEN Answer("reset-password", 400, "Password must be at least 8 characters")
    ELSE IF presented[1].userId \notin DOMAIN users
    THEN Answer("reset-password", 404, "User not found")
    ELSE Answer("reset-password", 200,
                "Password reset successfully. You can now log in with your new password.")

\* The addresses and passwords of the requests.
Addresses == [name : {"ann", "bob"}, domain : {"@esol.com", "@gmail.com"}]

LongPassword == <<"s", "e", "c", "r", "e", "t", "9", "9">>

Passwords == {<<>>, DEFAULT_PASSWORD, LongPassword}

\* What a client may present: nothing, a token it was sent, the same token
\* after its expiry, or a token signed with another secret.
Presentable ==
    {<<>>}
    \cup { <<t>> : t \in issued }
    \cup { <<[t EXCEPT !.expired = TRUE]>> : t \in issued }
    \cup { <<Sign(a, type, "guessed")>> :
             a \in Addresses, type \in {"reset", "undefined"} }

AuthInit ==
    /\ accounts = <<>>
    /\ issued = {}
    /\ admitted = {}
    /\ reply = NoResponse
    /\ forgot = NoForgot
    /\ ExtractIdle
    /\ AggIdle
    /\ FlowIdle
    /\ PipeIdle
    /\ ScoreIdle
    /\ TrainingIdle
    /\ ConnectIdle
    /\ BranchIdle

\* POST /api/auth/login: an unknown address of an allowed domain gets an
\* account with the default password.
Login ==
    /\ \E email \in Addresses, password \in Passwords \ {<<>>} :
          IF ~validateEmailDomain(email)
          THEN /\ reply' = Answer("login", 403, "Unauthorized email domain")
               /\ UNCHANGED <<accounts, issued>>
          ELSE /\ accounts' = IF email \in DOMAIN accounts THEN accounts
                              ELSE (email :> DEFAULT_PASSWORD) @@ accounts
               /\ IF accounts'[email] # password
                  THEN /\ reply' = Answer("login", 401, "Invalid credentials")
                       /\ UNCHANGED issued
                  ELSE /\ reply' = Answer("login", 200, "token")
                       /\ issued' = issued \cup {generateToken(email)}
    /\ UNCHANGED <<admitted, forgot, notAuth>>

\* POST /api/auth/forgot-password, answered for the accounts in storage and
\* for the same storage with the account of the address added or removed.
ForgotPassword ==
    /\ \E email \in Addresses, mailed \in BOOLEAN :
          \E here \in { forgotPassword(email, accounts, mailed) },
             with \in { forgotPassword(email, (email :> DEFAULT_PASSWORD) @@ accounts, mailed) },
             without \in { forgotPassword(email,
                               [e \in DOMAIN accounts \ {email} |-> accounts[e]], mailed) } :
              /\ reply' = here.reply
              /\ issued' = issued \cup { here.token[i] : i \in 1..Len(here.token) }
              /\ forgot' = [asked |-> TRUE, email |-> email,
                            found |-> with.reply, missing |-> without.reply]
    /\ UNCHANGED <<accounts, admitted, notAuth>>

\* A request to a route behind requireAuth.
RequireAuth ==
    /\ \E presented \in Presentable :
          /\ reply' = requireAuth(presented, accounts)
          /\ admitted' = IF reply'.message = "next"
                         THEN admitted \cup {[by |-> "requireAuth", type |-> presented[1].type]}
                         ELSE admitted
    /\ UNCHANGED <<accounts, issued, forgot, notAuth>>

\* POST /api/auth/reset-password.
ResetPassword ==
    /\ \E presented \in Presentable, password \in Passwords :
          /\ reply' = resetPassword(presented, password, accounts)
          /\ IF reply'.status = 200
             THEN /\ accounts' = [accounts EXCEPT ![presented[1].userId] = password]
                  /\ admitted' = admitted \cup
                         {[by |-> "reset-password", type |-> presented[1].type]}
             ELSE UNCHANGED <<accounts, admitted>>
    /\ UNCHANGED <<issued, forgot, notAuth>>

AuthNext == Login \/ ForgotPassword \/ RequireAuth \/ ResetPassword

SpecAuth == AuthInit /\ [][AuthNext]_vars

-----------------------------------------------------------------------------
(* Properties of the authentication routes                                 *)

Visible(r) == [status |-> r.status, message |-> r.message]

\* C29: for an address in an allowed domain, the status and the message of
\* the forgot-password response are the same with and without an account for
\* that address.
C29_SameResponseWithoutAccount ==
    (forgot.asked /\ validateEmailDomain(forgot.email))
        => Visible(forgot.found) = Visible(forgot.missing)

\* C30: a reset token is accepted by reset-password only and never by
\* requireAuth, and a session token is never accepted by reset-password.
C30_TokenKindsKeptApart ==
    \A a \in admitted :
        /\ a.type = "reset" => a.by = "reset-password"
        /\ a.type # "reset" => a.by # "reset-password"

====
